---- MODULE Spec2Model ----
(***************************************************************************)
(* Model of kubik's TaskTree (src/src/taskTree.ts): the orchestration      *)
(* engine that holds a DAG of tasks, versions them with a subtree SHA and  *)
(* a generation, and dispatches runnable tasks through a run callback;     *)
(* and of the Workspace and its Projects (src/unnamed/part_011), which     *)
(* feed the tree from the configuration files and run a child process per  *)
(* task.                                                                   *)
(*                                                                         *)
(* Task ids are the integers of TaskIds (compared with <, as the code      *)
(* compares the id strings).  Strings that the code hashes are sequences   *)
(* of integer tokens; sha256Text is an injective wrapping of its input.    *)
(***************************************************************************)
EXTENDS Integers, Sequences, FiniteSets, TLC

VARIABLES
  tasks,       \* TaskTree._tasks: the Task records, in Map insertion order
  roots,       \* TaskTree._roots: ids of the tasks without parents, sorted
  status,      \* TaskTree._status
  jobs,        \* TaskTree._options.jobs
  pc,          \* position of the run() pass: "idle" | "dispatch" | "callback"
  runQueue,    \* run(): the part of runnableTasks.slice(0, capacity) still to start
  deferred,    \* number of `Promise.resolve().then(() => this.run())` not yet run
  callbacks,   \* the onComplete closures handed to the run callback so far
  hist,        \* per execution object (by creation index): its task, its events, abort
  accepted,    \* ghost: ids and edges of the last adjacency setTasks accepted
  last,        \* ghost: how the last call ended ("returned" or "CycleError") and
               \*        whether the adjacency it was given had a directed cycle
  nCalls,      \* ghost: number of setTasks, clear, markChanged and resetAllTasks
               \*        calls so far
  disk,        \* the configuration files on disk, as readConfigTree would find them
  watchMode,   \* Workspace._options.watchMode
  projects,    \* Workspace._projects: the Project records, in Map insertion order
  procs,       \* the child processes alive in the operating system (pid = execution)
  updateData,  \* Workspace._updateData
  timers,      \* the armed setTimeout(_doUpdate) handles
  workspaceError, \* Workspace._workspaceError: <<>> (undefined) or the reported cycle
  passes,      \* the _doUpdate passes suspended at an await
  stopPc,      \* position of Workspace.stop()
  nEvents,     \* ghost: file changes, watcher events and scheduleUpdate calls so far
  errorEvents, \* ghost: workspace_status_changed emitted by _setWorkspaceError so far
  lastRead     \* ghost: whether the configuration last read had a directed cycle
               \*        ("none" before the first read, then "cycle" or "acyclic")

\* The Workspace and its Projects (src/unnamed/part_011).
wsvars == <<disk, watchMode, projects, procs, updateData, timers, workspaceError,
            passes, stopPc, nEvents, errorEvents, lastRead>>

vars == <<tasks, roots, status, jobs, pc, runQueue, deferred, callbacks, hist,
          accepted, last, nCalls, wsvars>>

(***************************************************************************)
(* Bounds of the model.                                                    *)
(***************************************************************************)
MaxExec == 3        \* executions created in one behaviour
MaxCalls == 2       \* setTasks, clear, markChanged and resetAllTasks calls in one behaviour

TaskIds == {1, 2, 3}

(***************************************************************************)
(* Sequence helpers.                                                       *)
(***************************************************************************)
Range(s) == {s[i] : i \in 1..Len(s)}

Contains(s, x) == \E i \in 1..Len(s) : s[i] = x

RECURSIVE SetToSortedSeq(_)
SetToSortedSeq(S) ==
  IF S = {} THEN <<>>
  ELSE LET m == CHOOSE x \in S : \A y \in S : x <= y
       IN <<m>> \o SetToSortedSeq(S \ {m})

\* Array.prototype.sort((a, b) => a.taskId < b.taskId ? -1 : 1) on distinct ids.
SortIds(s) == SetToSortedSeq(Range(s))

\* new Set([...s]) spread back to an array: first occurrences, in order.
RECURSIVE Dedupe(_)
Dedupe(s) ==
  IF s = <<>> THEN <<>>
  ELSE LET front == Dedupe(SubSeq(s, 1, Len(s) - 1))
           x == s[Len(s)]
       IN IF Contains(front, x) THEN front ELSE Append(front, x)

RECURSIVE Flatten(_)
Flatten(ss) == IF ss = <<>> THEN <<>> ELSE Head(ss) \o Flatten(Tail(ss))

(***************************************************************************)
(* Multimap<K, V> = Map<K, Set<V>>: a sequence of entries [key, values]    *)
(* in insertion order, keys distinct, each values sequence without         *)
(* duplicates.                                                             *)
(***************************************************************************)
MultimapKeys(m) == [i \in 1..Len(m) |-> m[i].key]

MultimapValues(m) == Flatten([i \in 1..Len(m) |-> m[i].values])

MultimapGetAll(m, k) ==
  IF \E i \in 1..Len(m) : m[i].key = k
  THEN m[CHOOSE i \in 1..Len(m) : m[i].key = k].values
  ELSE <<>>

\* Every Multimap over TaskIds whose entries were inserted in ascending key
\* order with ascending values.  NoKey marks an id that is no key.
NoKey == {0}

MultimapOf(f) ==
  LET ks == SetToSortedSeq({k \in TaskIds : f[k] # NoKey})
  IN [i \in 1..Len(ks) |-> [key |-> ks[i], values |-> SetToSortedSeq(f[ks[i]])]]

AllAdjacencies == {MultimapOf(f) : f \in [TaskIds -> (SUBSET TaskIds) \cup {NoKey}]}

Entry(k, vs) == [key |-> k, values |-> vs]

\* The adjacencies the model passes to setTasks: the graphs of the test
\* suite (leaves, chain, fork, single dependency and its swap, shared
\* dependency, a task reachable along two paths) ...
AcyclicInputs ==
  { <<>>,
    <<Entry(1, <<>>), Entry(2, <<>>), Entry(3, <<>>)>>,
    <<Entry(3, <<2>>), Entry(2, <<1>>), Entry(1, <<>>)>>,
    <<Entry(1, <<2, 3>>)>>,
    <<Entry(1, <<2>>)>>,
    <<Entry(1, <<3>>)>>,
    <<Entry(1, <<3>>), Entry(2, <<3>>)>>,
    <<Entry(1, <<3, 2>>), Entry(2, <<3>>)>> }

\* ... and graphs with a cycle: a self-loop, a cycle through every node (no
\* roots), a cycle behind a lead-in node, a cycle the first key does not
\* reach, and a self-loop below a shared dependency.
CyclicInputs ==
  { <<Entry(1, <<1>>)>>,
    <<Entry(1, <<2>>), Entry(2, <<3>>), Entry(3, <<1>>)>>,
    <<Entry(1, <<2>>), Entry(2, <<3>>), Entry(3, <<2>>)>>,
    <<Entry(1, <<>>), Entry(2, <<3>>), Entry(3, <<2>>)>>,
    <<Entry(1, <<2, 3>>), Entry(2, <<3>>), Entry(3, <<3>>)>> }

Adjacencies == AcyclicInputs \cup CyclicInputs

IdsOf(m) == Range(MultimapKeys(m)) \cup Range(MultimapValues(m))

EdgesOf(m) ==
  UNION {{<<m[i].key, m[i].values[j]>> : j \in 1..Len(m[i].values)} : i \in 1..Len(m)}

\* The edge relation has a directed cycle: some id reaches itself.
RECURSIVE ReachFrom(_, _)
ReachFrom(E, S) ==
  LET next == S \cup {e[2] : e \in {d \in E : d[1] \in S}}
  IN IF next = S THEN S ELSE ReachFrom(E, next)

Descendants(E, x) == ReachFrom(E, {e[2] : e \in {d \in E : d[1] = x}})

HasCycle(E) == \E e \in E : e[1] \in Descendants(E, e[1])

(***************************************************************************)
(* TaskTree.findDependencyCycle.  st carries the closure's mutable state:  *)
(* stack, stackIndexes (pairs <<id, index>>, index 0-based), visited, and  *)
(* the returned cycle (<<>> for undefined).                                *)
(***************************************************************************)
RECURSIVE findCycle(_, _, _)
RECURSIVE findCycleChildren(_, _, _, _)

\* Mutant: the whole stack is returned, lead-in nodes included.
findCycleWholeStack(m, taskId, st) ==
  IF \E p \in st.stackIndexes : p[1] = taskId
  THEN [st EXCEPT !.cycle = st.stack]
  ELSE IF taskId \in st.visited
  THEN st
  ELSE LET pushed == [st EXCEPT !.visited = @ \cup {taskId},
                                !.stackIndexes = @ \cup {<<taskId, Len(st.stack)>>},
                                !.stack = Append(@, taskId)]
           after == findCycleChildren(m, MultimapGetAll(m, taskId), 1, pushed)
       IN IF after.cycle # <<>>
          THEN after
          ELSE [after EXCEPT !.stack = SubSeq(@, 1, Len(@) - 1),
                             !.stackIndexes = {p \in @ : p[1] # taskId}]

findCycle(m, taskId, st) ==
  IF \E p \in st.stackIndexes : p[1] = taskId
  THEN LET stackIndex == (CHOOSE p \in st.stackIndexes : p[1] = taskId)[2]
       IN [st EXCEPT !.cycle = SubSeq(st.stack, stackIndex + 1, Len(st.stack))]
  ELSE IF taskId \in st.visited
  THEN st
  ELSE LET pushed == [st EXCEPT !.visited = @ \cup {taskId},
                                !.stackIndexes = @ \cup {<<taskId, Len(st.stack)>>},
                                !.stack = Append(@, taskId)]
           after == findCycleChildren(m, MultimapGetAll(m, taskId), 1, pushed)
       IN IF after.cycle # <<>>
          THEN after
          ELSE [after EXCEPT !.stack = SubSeq(@, 1, Len(@) - 1),
                             !.stackIndexes = {p \in @ : p[1] # taskId}]

findCycleChildren(m, children, i, st) ==
  IF i > Len(children) THEN st
  ELSE LET after == findCycle(m, children[i], st)
       IN IF after.cycle # <<>> THEN after
          ELSE findCycleChildren(m, children, i + 1, after)

RECURSIVE findCycleKeys(_, _, _, _)
findCycleKeys(m, keys, i, st) ==
  IF i > Len(keys) THEN st
  ELSE LET after == findCycle(m, keys[i], [st EXCEPT !.stack = <<>>])
       IN IF after.cycle # <<>> THEN after
          ELSE findCycleKeys(m, keys, i + 1, after)

\* Mutant: only the first key is searched.
findDependencyCycleFirstKey(m) ==
  findCycleKeys(m, IF m = <<>> THEN <<>> ELSE <<m[1].key>>, 1,
                [stack |-> <<>>, stackIndexes |-> {}, visited |-> {}, cycle |-> <<>>]).cycle

findDependencyCycle(m) ==
  findCycleKeys(m, MultimapKeys(m), 1,
                [stack |-> <<>>, stackIndexes |-> {}, visited |-> {}, cycle |-> <<>>]).cycle

(***************************************************************************)
(* sha256 of src/src/utils.ts.  A hashed string is a sequence of integer   *)
(* tokens; sha256Text wraps its input between two marks, so that distinct  *)
(* inputs give distinct digests.                                           *)
(***************************************************************************)
\* The separator is a digest, a string that is no id and no generation.
ID_SEPARATOR == -3

sha256Text(text) == <<-1>> \o text \o <<-2>>

RECURSIVE Join(_)
Join(parts) ==
  IF parts = <<>> THEN <<>>
  ELSE IF Len(parts) = 1 THEN parts[1]
  ELSE parts[1] \o <<ID_SEPARATOR>> \o Join(Tail(parts))

sha256(data) == sha256Text(Join(data))

\* task.generation + '' and a task id used as a string.
NumStr(n) == <<n>>

taskVersion(task) == sha256(<<NumStr(task.generation), task.subtreeSha>>)

(***************************************************************************)
(* Task and Execution records.  An absent execution is NoExecution;        *)
(* success is "undefined", "true" or "false".  The field id names the      *)
(* Execution object (its creation index), which the code identifies by     *)
(* reference.                                                              *)
(***************************************************************************)
NoExecution == [present |-> FALSE, success |-> "undefined", taskVersion |-> <<>>, id |-> 0]

NewTask(taskId) ==
  [taskId |-> taskId, children |-> <<>>, parents |-> <<>>, generation |-> 0,
   subtreeSha |-> <<>>, execution |-> NoExecution]

HasTask(ts, taskId) == \E i \in 1..Len(ts) : ts[i].taskId = taskId

IndexOf(ts, taskId) == CHOOSE i \in 1..Len(ts) : ts[i].taskId = taskId

GetTask(ts, taskId) == ts[IndexOf(ts, taskId)]

\* The part of the TaskTree that the handlers below thread through their steps.
Tree == [tasks |-> tasks, status |-> status, hist |-> hist, deferred |-> deferred]

isSuccessfulCurrentTask(task) ==
  /\ task.execution.present
  /\ taskVersion(task) = task.execution.taskVersion
  /\ task.execution.success = "true"

\* Mutant: the children are not looked at.
runnableTasksIgnoreChildren(ts) ==
  SelectSeq([i \in 1..Len(ts) |-> ts[i].taskId],
            LAMBDA id : ~GetTask(ts, id).execution.present)

\* Mutant: a task that has an execution counts as runnable again.
runnableTasksIgnoreExecution(ts) ==
  SelectSeq([i \in 1..Len(ts) |-> ts[i].taskId],
            LAMBDA id : LET task == GetTask(ts, id)
                        IN \A j \in 1..Len(task.children) :
                             isSuccessfulCurrentTask(GetTask(ts, task.children[j])))

\* TaskTree._runnableTasks, as ids in Map order.
runnableTasks(ts) ==
  SelectSeq([i \in 1..Len(ts) |-> ts[i].taskId],
            LAMBDA id : LET task == GetTask(ts, id)
                        IN /\ ~task.execution.present
                           /\ \A j \in 1..Len(task.children) :
                                isSuccessfulCurrentTask(GetTask(ts, task.children[j])))

\* TaskTree._tasksBeingRun, as ids in Map order.
tasksBeingRun(ts) ==
  SelectSeq([i \in 1..Len(ts) |-> ts[i].taskId],
            LAMBDA id : LET task == GetTask(ts, id)
                        IN task.execution.present /\ task.execution.success = "undefined")

\* this.emit('tree_status_changed', status) is the change of status itself.
setTreeStatus(S, st) == IF st # S.status THEN [S EXCEPT !.status = st] ELSE S

\* Mutant: a runnable task makes the tree pending although tasks are in flight.
computeTreeStatusPendingFirst(S) ==
  IF Len(runnableTasks(S.tasks)) = 0 /\ Len(tasksBeingRun(S.tasks)) = 0
  THEN LET hasFailedTasks ==
             \E i \in 1..Len(S.tasks) :
               S.tasks[i].execution.present /\ S.tasks[i].execution.success = "false"
       IN setTreeStatus(S, IF hasFailedTasks THEN "fail" ELSE "ok")
  ELSE setTreeStatus(S, IF Len(runnableTasks(S.tasks)) > 0 THEN "pending" ELSE "running")

\* Mutant: failed tasks are not looked at, a settled tree is ok.
computeTreeStatusIgnoreFailures(S) ==
  IF Len(runnableTasks(S.tasks)) = 0 /\ Len(tasksBeingRun(S.tasks)) = 0
  THEN setTreeStatus(S, "ok")
  ELSE setTreeStatus(S, IF Len(tasksBeingRun(S.tasks)) > 0 THEN "running" ELSE "pending")

computeTreeStatus(S) ==
  IF Len(runnableTasks(S.tasks)) = 0 /\ Len(tasksBeingRun(S.tasks)) = 0
  THEN LET hasFailedTasks ==
             \E i \in 1..Len(S.tasks) :
               S.tasks[i].execution.present /\ S.tasks[i].execution.success = "false"
       IN setTreeStatus(S, IF hasFailedTasks THEN "fail" ELSE "ok")
  ELSE setTreeStatus(S, IF Len(tasksBeingRun(S.tasks)) > 0 THEN "running" ELSE "pending")

\* The tree_status_changed events _setTreeStatus(st) emits.
treeStatusEvents(S, st) == IF st # S.status THEN <<st>> ELSE <<>>

\* The tree_status_changed events one call of run() emits: those of
\* _computeTreeStatus when it returns early, else those of the pro-active
\* _setTreeStatus('running').
runStatusEvents(S) ==
  LET capacity == jobs.n - Len(tasksBeingRun(S.tasks))
  IN IF (~jobs.infinite /\ capacity <= 0) \/ Len(runnableTasks(S.tasks)) = 0
     THEN treeStatusEvents(S, computeTreeStatus(S).status)
     ELSE treeStatusEvents(S, "running")

\* Mutant: a task without execution is pending whatever the tree status.
taskStatusIgnoreTree(ts, st, taskId) ==
  LET task == GetTask(ts, taskId)
  IN IF ~task.execution.present THEN "pending"
     ELSE IF task.execution.success = "undefined" THEN "running"
     ELSE IF task.execution.success = "true" THEN "ok" ELSE "fail"

\* TaskTree.taskStatus for an existing task, st being this._status.
taskStatus(ts, st, taskId) ==
  LET task == GetTask(ts, taskId)
  IN IF ~task.execution.present /\ (st = "ok" \/ st = "fail") THEN "n/a"
     ELSE IF ~task.execution.present THEN "pending"
     ELSE IF task.execution.present /\ task.execution.success = "undefined" THEN "running"
     ELSE IF task.execution.present /\ task.execution.success = "true" THEN "ok"
     ELSE "fail"

\* this.emit(type, taskId) for the execution object e of the task: the
\* event is recorded in the execution's history.
emit(h, e, type) == [h EXCEPT ![e].log = Append(@, type)]

\* Mutant: the execution is aborted and reported but stays on the task.
resetTaskKeepsExecution(S, i) ==
  IF ~S.tasks[i].execution.present
  THEN S
  ELSE LET execution == S.tasks[i].execution
           aborted == [S.hist EXCEPT ![execution.id].aborted = TRUE]
       IN [S EXCEPT !.hist = emit(aborted, execution.id, "task_reset")]

\* TaskTree._resetTask on the task at index i of the Map.
resetTask(S, i) ==
  IF ~S.tasks[i].execution.present
  THEN S
  ELSE LET execution == S.tasks[i].execution
           aborted == [S.hist EXCEPT ![execution.id].aborted = TRUE]
       IN [S EXCEPT !.tasks[i].execution = NoExecution,
                    !.hist = emit(aborted, execution.id, "task_reset")]

RECURSIVE resetEach(_, _, _)
resetEach(S, ids, k) ==
  IF k > Len(ids) THEN S
  ELSE resetEach(resetTask(S, IndexOf(S.tasks, ids[k])), ids, k + 1)

resetAllTasksBody(S) ==
  computeTreeStatus(resetEach(S, [i \in 1..Len(S.tasks) |-> S.tasks[i].taskId], 1))

(***************************************************************************)
(* TaskTree.setTasks after the cycle check.                                *)
(***************************************************************************)
\* Mutant: dropped nodes are removed and their builds are not cancelled.
removeDroppedNoReset(S, taskIds) ==
  [S EXCEPT !.tasks = SelectSeq(@, LAMBDA task : Contains(taskIds, task.taskId))]

\* Remove nodes that were dropped, cancelling their build in the meantime.
removeDropped(S, taskIds) ==
  LET dropped == SelectSeq([i \in 1..Len(S.tasks) |-> S.tasks[i].taskId],
                           LAMBDA id : ~Contains(taskIds, id))
      reset == resetEach(S, dropped, 1)
  IN [reset EXCEPT !.tasks = SelectSeq(@, LAMBDA task : Contains(taskIds, task.taskId))]

\* Create all new nodes; every node starts with empty children and parents.
RECURSIVE createNodes(_, _, _)
createNodes(ts, taskIds, k) ==
  IF k > Len(taskIds) THEN ts
  ELSE LET with == IF HasTask(ts, taskIds[k]) THEN ts ELSE Append(ts, NewTask(taskIds[k]))
           i == IndexOf(with, taskIds[k])
       IN createNodes([with EXCEPT ![i].children = <<>>, ![i].parents = <<>>],
                      taskIds, k + 1)

\* The pairs <<taskId, childId>> in the order the Multimap iterates them.
EdgeSeq(m) ==
  Flatten([i \in 1..Len(m) |->
             [j \in 1..Len(m[i].values) |-> <<m[i].key, m[i].values[j]>>]])

\* Mutant: the child does not learn its parent.
RECURSIVE buildGraphNoParents(_, _, _)
buildGraphNoParents(ts, edges, k) ==
  IF k > Len(edges) THEN ts
  ELSE LET t == IndexOf(ts, edges[k][1])
       IN buildGraphNoParents([ts EXCEPT ![t].children = Append(@, edges[k][2])],
                              edges, k + 1)

\* Build a graph.
RECURSIVE buildGraph(_, _, _)
buildGraph(ts, edges, k) ==
  IF k > Len(edges) THEN ts
  ELSE LET t == IndexOf(ts, edges[k][1])
           c == IndexOf(ts, edges[k][2])
           pushed == [ts EXCEPT ![t].children = Append(@, edges[k][2])]
       IN buildGraph([pushed EXCEPT ![c].parents = Append(@, edges[k][1])], edges, k + 1)

figureOutRoots(ts) ==
  SortIds(SelectSeq([i \in 1..Len(ts) |-> ts[i].taskId],
                    LAMBDA id : Len(GetTask(ts, id).parents) = 0))

\* The dfs closure of setTasks: sorts the children, recomputes the subtree
\* sha bottom-up and resets the build of a node whose sha changed.
RECURSIVE dfsSha(_, _)
RECURSIVE dfsShaEach(_, _, _)

\* Mutant: the build of every visited node is reset, changed sha or not.
dfsShaAlwaysReset(S, taskId) ==
  LET i == IndexOf(S.tasks, taskId)
      sorted == [S EXCEPT !.tasks[i].children = SortIds(@)]
      after == dfsShaEach(sorted, sorted.tasks[i].children, 1)
      task == after.tasks[i]
      subtreeSha == sha256(<<NumStr(task.taskId)>> \o
                           [j \in 1..Len(task.children) |->
                              GetTask(after.tasks, task.children[j]).subtreeSha])
  IN resetTask([after EXCEPT !.tasks[i].subtreeSha = subtreeSha], i)

dfsSha(S, taskId) ==
  LET i == IndexOf(S.tasks, taskId)
      sorted == [S EXCEPT !.tasks[i].children = SortIds(@)]
      after == dfsShaEach(sorted, sorted.tasks[i].children, 1)
      task == after.tasks[i]
      subtreeSha == sha256(<<NumStr(task.taskId)>> \o
                           [j \in 1..Len(task.children) |->
                              GetTask(after.tasks, task.children[j]).subtreeSha])
  IN IF task.subtreeSha # subtreeSha
     THEN resetTask([after EXCEPT !.tasks[i].subtreeSha = subtreeSha], i)
     ELSE after

dfsShaEach(S, ids, k) ==
  IF k > Len(ids) THEN S ELSE dfsShaEach(dfsSha(S, ids[k]), ids, k + 1)

setTasksBody(S, m) ==
  LET taskIds == Dedupe(MultimapValues(m) \o MultimapKeys(m))
      kept == removeDropped(S, taskIds)
      built == [kept EXCEPT
                  !.tasks = buildGraph(createNodes(@, taskIds, 1), EdgeSeq(m), 1)]
  IN computeTreeStatus(dfsShaEach(built, figureOutRoots(built.tasks), 1))

(***************************************************************************)
(* TaskTree.topsort: the dfs closure with its visited set and result, run  *)
(* over the roots.                                                         *)
(***************************************************************************)
RECURSIVE topsortDfs(_, _, _)
RECURSIVE topsortEach(_, _, _, _)

\* Mutant: a task is pushed before its children are visited.
topsortDfsPreOrder(ts, taskId, st) ==
  IF taskId \in st.visited THEN st
  ELSE topsortEach(ts, GetTask(ts, taskId).children, 1,
                   [visited |-> st.visited \cup {taskId},
                    result |-> Append(st.result, taskId)])

topsortDfs(ts, taskId, st) ==
  IF taskId \in st.visited THEN st
  ELSE LET after == topsortEach(ts, GetTask(ts, taskId).children, 1,
                                [st EXCEPT !.visited = @ \cup {taskId}])
       IN [after EXCEPT !.result = Append(@, taskId)]

topsortEach(ts, ids, k, st) ==
  IF k > Len(ids) THEN st ELSE topsortEach(ts, ids, k + 1, topsortDfs(ts, ids[k], st))

topsort(ts, rs) == topsortEach(ts, rs, 1, [visited |-> {}, result |-> <<>>]).result

(***************************************************************************)
(* TaskTree.markChanged for an existing task: the dfs closure over the     *)
(* parents, with its visited set.                                          *)
(***************************************************************************)
RECURSIVE dfsChanged(_, _)
RECURSIVE dfsChangedEach(_, _, _)

\* Mutant: the generation is bumped and the execution is kept.
dfsChangedNoReset(W, taskId) ==
  IF taskId \in W.visited THEN W
  ELSE LET i == IndexOf(W.tree.tasks, taskId)
       IN dfsChangedEach([tree |-> [W.tree EXCEPT !.tasks[i].generation = @ + 1],
                          visited |-> W.visited \cup {taskId}],
                         W.tree.tasks[i].parents, 1)

\* Mutant: no visited set, a task is bumped once per path that reaches it.
dfsChangedNoVisited(W, taskId) ==
  LET i == IndexOf(W.tree.tasks, taskId)
      bumped == [W.tree EXCEPT !.tasks[i].generation = @ + 1]
  IN dfsChangedEach([tree |-> resetTask(bumped, i), visited |-> W.visited],
                    W.tree.tasks[i].parents, 1)

\* Mutant: the parents are not visited.
dfsChangedNoParents(W, taskId) ==
  IF taskId \in W.visited THEN W
  ELSE LET i == IndexOf(W.tree.tasks, taskId)
           bumped == [W.tree EXCEPT !.tasks[i].generation = @ + 1]
       IN [tree |-> resetTask(bumped, i), visited |-> W.visited \cup {taskId}]

dfsChanged(W, taskId) ==
  IF taskId \in W.visited THEN W
  ELSE LET i == IndexOf(W.tree.tasks, taskId)
           bumped == [W.tree EXCEPT !.tasks[i].generation = @ + 1]
       IN dfsChangedEach([tree |-> resetTask(bumped, i),
                          visited |-> W.visited \cup {taskId}],
                         W.tree.tasks[i].parents, 1)

dfsChangedEach(W, ids, k) ==
  IF k > Len(ids) THEN W ELSE dfsChangedEach(dfsChanged(W, ids[k]), ids, k + 1)

markChangedBody(S, taskId) ==
  IF ~HasTask(S.tasks, taskId) THEN S
  ELSE computeTreeStatus(dfsChanged([tree |-> S, visited |-> {}], taskId).tree)

\* Mutant: an outcome that is already set is overwritten.
onTaskCompleteTwice(S, c, success) ==
  IF ~c.live \/ ~HasTask(S.tasks, c.task) THEN S
  ELSE LET i == IndexOf(S.tasks, c.task)
           execution == S.tasks[i].execution
       IN IF ~execution.present \/ execution.taskVersion # c.taskVersion
          THEN S
          ELSE [S EXCEPT !.tasks[i].execution.success = IF success THEN "true" ELSE "false",
                         !.hist = emit(@, execution.id, "task_finished"),
                         !.deferred = @ + 1]

\* Mutant: no run() is scheduled after the outcome is recorded.
onTaskCompleteNoReschedule(S, c, success) ==
  IF ~c.live \/ ~HasTask(S.tasks, c.task) THEN S
  ELSE LET i == IndexOf(S.tasks, c.task)
           execution == S.tasks[i].execution
       IN IF \/ ~execution.present
             \/ execution.taskVersion # c.taskVersion
             \/ execution.success # "undefined"
          THEN S
          ELSE [S EXCEPT !.tasks[i].execution.success = IF success THEN "true" ELSE "false",
                         !.hist = emit(@, execution.id, "task_finished")]

\* Mutant: the follow-up pass is not deferred, the first runnable task is
\* started inside the on_complete call.
onTaskCompleteRunsNow(S, c, success) ==
  IF ~c.live \/ ~HasTask(S.tasks, c.task) THEN S
  ELSE LET i == IndexOf(S.tasks, c.task)
           execution == S.tasks[i].execution
       IN IF \/ ~execution.present
             \/ execution.taskVersion # c.taskVersion
             \/ execution.success # "undefined"
          THEN S
          ELSE LET done == [S EXCEPT
                              !.tasks[i].execution.success = IF success THEN "true" ELSE "false",
                              !.hist = emit(@, execution.id, "task_finished")]
                   runnable == runnableTasks(done.tasks)
               IN IF runnable = <<>> THEN done
                  ELSE LET j == IndexOf(done.tasks, runnable[1])
                       IN [done EXCEPT
                             !.tasks[j].execution =
                               [present |-> TRUE, success |-> "undefined",
                                taskVersion |-> taskVersion(done.tasks[j]),
                                id |-> Len(done.hist) + 1],
                             !.hist = Append(@, [task |-> runnable[1],
                                                 log |-> <<"task_started">>,
                                                 aborted |-> FALSE])]

\* TaskTree._onTaskComplete for a closure c bound to (task, taskVersion);
\* c.live tells whether the bound Task object is still the one in the Map.
onTaskComplete(S, c, success) ==
  IF ~c.live \/ ~HasTask(S.tasks, c.task) THEN S
  ELSE LET i == IndexOf(S.tasks, c.task)
           execution == S.tasks[i].execution
       IN IF \/ ~execution.present
             \/ execution.taskVersion # c.taskVersion
             \/ execution.success # "undefined"
          THEN S
          ELSE [S EXCEPT !.tasks[i].execution.success = IF success THEN "true" ELSE "false",
                         !.hist = emit(@, execution.id, "task_finished"),
                         !.deferred = @ + 1]

(***************************************************************************)
(* The state machine.                                                      *)
(***************************************************************************)
\* jobs is a number or Infinity.
JobsOptions == {[infinite |-> FALSE, n |-> 1], [infinite |-> FALSE, n |-> 2],
                [infinite |-> TRUE, n |-> 0]}

Returned == [result |-> "returned", argCyclic |-> FALSE]

\* The Workspace's _updateData when undefined, and stop() not called.
NoUpdateData ==
  [present |-> FALSE, timeout |-> 0, needsRereadConfigFiles |-> FALSE,
   changedProjects |-> {}]

StopNone == [pc |-> "none", project |-> 0, disposed |-> {}]

\* A TaskTree used without a Workspace.
NoWorkspace ==
  /\ disk = <<>>
  /\ watchMode = FALSE
  /\ projects = <<>>
  /\ procs = {}
  /\ updateData = NoUpdateData
  /\ timers = {}
  /\ workspaceError = <<>>
  /\ passes = <<>>
  /\ stopPc = StopNone
  /\ nEvents = 0
  /\ errorEvents = 0
  /\ lastRead = "none"

Init ==
  /\ tasks = <<>>
  /\ roots = <<>>
  /\ status = "ok"
  /\ jobs \in JobsOptions
  /\ pc = "idle"
  /\ runQueue = <<>>
  /\ deferred = 0
  /\ callbacks = {}
  /\ hist = <<>>
  /\ accepted = [ids |-> {}, edges |-> {}]
  /\ last = Returned
  /\ nCalls = 0
  /\ NoWorkspace

Apply(S) ==
  /\ tasks' = S.tasks
  /\ status' = S.status
  /\ hist' = S.hist
  /\ deferred' = S.deferred

\* setTasks(m) when findDependencyCycle finds a cycle: throws CycleError
\* before anything is touched.
SetTasksThrows(m) ==
  /\ pc = "idle"
  /\ nCalls < MaxCalls
  /\ findDependencyCycle(m) # <<>>
  /\ last' = [result |-> "CycleError", argCyclic |-> HasCycle(EdgesOf(m))]
  /\ nCalls' = nCalls + 1
  /\ UNCHANGED <<wsvars, tasks, roots, status, jobs, pc, runQueue, deferred, callbacks, hist,
                 accepted>>

\* A closure stays bound to its Task object; the object leaves the Map when
\* setTasks drops its id.
Rebind(ts) == {[c EXCEPT !.live = c.live /\ HasTask(ts, c.task)] : c \in callbacks}

SetTasksAccepted(m) ==
  /\ pc = "idle"
  /\ findDependencyCycle(m) = <<>>
  /\ nCalls < MaxCalls
  /\ Apply(setTasksBody(Tree, m))
  /\ roots' = figureOutRoots(tasks')
  /\ callbacks' = Rebind(tasks')
  /\ accepted' = [ids |-> IdsOf(m), edges |-> EdgesOf(m)]
  /\ last' = [result |-> "returned", argCyclic |-> HasCycle(EdgesOf(m))]
  /\ nCalls' = nCalls + 1
  /\ UNCHANGED <<wsvars, jobs, pc, runQueue>>

\* clear() is setTasks(new Multimap([])).
Clear ==
  /\ pc = "idle"
  /\ nCalls < MaxCalls
  /\ Apply(setTasksBody(Tree, <<>>))
  /\ roots' = figureOutRoots(tasks')
  /\ callbacks' = Rebind(tasks')
  /\ accepted' = [ids |-> {}, edges |-> {}]
  /\ last' = Returned
  /\ nCalls' = nCalls + 1
  /\ UNCHANGED <<wsvars, jobs, pc, runQueue>>

MarkChanged(taskId) ==
  /\ pc = "idle"
  /\ nCalls < MaxCalls
  /\ Apply(markChangedBody(Tree, taskId))
  /\ last' = Returned
  /\ nCalls' = nCalls + 1
  /\ UNCHANGED <<wsvars, roots, jobs, pc, runQueue, callbacks, accepted>>

ResetAllTasks ==
  /\ pc = "idle"
  /\ nCalls < MaxCalls
  /\ Apply(resetAllTasksBody(Tree))
  /\ last' = Returned
  /\ nCalls' = nCalls + 1
  /\ UNCHANGED <<wsvars, roots, jobs, pc, runQueue, callbacks, accepted>>

\* Mutant: the slice takes jobs tasks, whatever is already running.
runSliceWholeBudget(ts) ==
  LET runnable == runnableTasks(ts)
  IN IF jobs.infinite \/ jobs.n >= Len(runnable) THEN runnable
     ELSE SubSeq(runnable, 1, jobs.n)

\* runnableTasks.slice(0, capacity), capacity = jobs - tasksBeingRun.length.
runSlice(ts) ==
  LET runnable == runnableTasks(ts)
      capacity == jobs.n - Len(tasksBeingRun(ts))
  IN IF jobs.infinite \/ capacity >= Len(runnable) THEN runnable
     ELSE SubSeq(runnable, 1, capacity)

\* Mutant: run() returns early without recomputing the tree status.
runEnterNoStatus(S) ==
  LET capacity == jobs.n - Len(tasksBeingRun(S.tasks))
  IN IF (~jobs.infinite /\ capacity <= 0) \/ Len(runnableTasks(S.tasks)) = 0
     THEN /\ Apply(S)
          /\ UNCHANGED <<pc, runQueue>>
     ELSE /\ Len(hist) + Len(runSlice(S.tasks)) <= MaxExec
          /\ Apply(setTreeStatus(S, "running"))
          /\ runQueue' = runSlice(S.tasks)
          /\ pc' = "dispatch"

\* run() up to the dispatch loop.
runEnter(S) ==
  LET capacity == jobs.n - Len(tasksBeingRun(S.tasks))
  IN IF (~jobs.infinite /\ capacity <= 0) \/ Len(runnableTasks(S.tasks)) = 0
     THEN /\ Apply(computeTreeStatus(S))
          /\ UNCHANGED <<pc, runQueue>>
     ELSE /\ Len(hist) + Len(runSlice(S.tasks)) <= MaxExec
          /\ Apply(setTreeStatus(S, "running"))
          /\ runQueue' = runSlice(S.tasks)
          /\ pc' = "dispatch"

\* The client calls run().
Run ==
  /\ pc = "idle"
  /\ runEnter(Tree)
  /\ last' = Returned
  /\ UNCHANGED <<wsvars, roots, jobs, callbacks, accepted, nCalls>>

\* The event loop runs a `Promise.resolve().then(() => this.run())`.
RunDeferred ==
  /\ pc = "idle"
  /\ deferred > 0
  /\ runEnter([Tree EXCEPT !.deferred = @ - 1])
  /\ last' = Returned
  /\ UNCHANGED <<wsvars, roots, jobs, callbacks, accepted, nCalls>>

\* Mutant: task_started is not emitted before the callback.
startExecutionNoEmit(S, taskId) ==
  LET i == IndexOf(S.tasks, taskId)
  IN [S EXCEPT !.tasks[i].execution =
                 [present |-> TRUE, success |-> "undefined",
                  taskVersion |-> taskVersion(S.tasks[i]), id |-> Len(S.hist) + 1],
               !.hist = Append(@, [task |-> taskId, log |-> <<>>, aborted |-> FALSE])]

\* The dispatch loop's body up to the callback: a new Execution with its
\* own AbortController, then emit('task_started').
startExecution(S, taskId) ==
  LET i == IndexOf(S.tasks, taskId)
      id == Len(S.hist) + 1
      created == [S EXCEPT !.tasks[i].execution =
                    [present |-> TRUE, success |-> "undefined",
                     taskVersion |-> taskVersion(S.tasks[i]), id |-> id],
                  !.hist = Append(@, [task |-> taskId, log |-> <<>>, aborted |-> FALSE])]
  IN [created EXCEPT !.hist = emit(@, id, "task_started")]

\* One turn of the dispatch loop up to the callback: the execution is
\* created and task_started is emitted.
RunDispatch ==
  /\ pc = "dispatch"
  /\ Apply(startExecution(Tree, Head(runQueue)))
  /\ pc' = "callback"
  /\ UNCHANGED <<wsvars, roots, jobs, runQueue, callbacks, accepted, last, nCalls>>

\* The closure `this._onTaskComplete.bind(this, task, task.execution.taskVersion)`
\* of the execution just created.
NewCallback ==
  LET task == GetTask(tasks, Head(runQueue))
  IN [task |-> task.taskId, taskVersion |-> task.execution.taskVersion,
      exec |-> task.execution.id, live |-> TRUE]

\* this._runCallback.call(null, taskOptions): the callback keeps onComplete
\* and either returns ("async") or calls it before returning.
CallbackKinds == {"async", "sync_true", "sync_false"}

RunCallback(kind) ==
  /\ pc = "callback"
  /\ callbacks' = callbacks \cup {NewCallback}
  /\ Apply(IF kind = "async" THEN Tree
           ELSE onTaskComplete(Tree, NewCallback, kind = "sync_true"))
  /\ runQueue' = Tail(runQueue)
  /\ pc' = IF Tail(runQueue) = <<>> THEN "idle" ELSE "dispatch"
  /\ UNCHANGED <<wsvars, roots, jobs, accepted, last, nCalls>>

\* A kept onComplete closure is called from a later turn of the event loop.
OnComplete(c, success) ==
  /\ pc = "idle"
  /\ Apply(onTaskComplete(Tree, c, success))
  /\ last' = Returned
  /\ UNCHANGED <<wsvars, roots, jobs, pc, runQueue, callbacks, accepted, nCalls>>

Next ==
  \/ \E m \in Adjacencies : SetTasksThrows(m)
  \/ \E m \in Adjacencies : SetTasksAccepted(m)
  \/ Clear
  \/ \E taskId \in TaskIds : MarkChanged(taskId)
  \/ ResetAllTasks
  \/ Run
  \/ RunDeferred
  \/ RunDispatch
  \/ \E kind \in CallbackKinds : RunCallback(kind)
  \/ \E c \in callbacks, success \in BOOLEAN : OnComplete(c, success)

Spec == Init /\ [][Next]_vars

(***************************************************************************)
(* The tree left alone after its tasks are set: the client sets the tasks  *)
(* before the first run(), every run callback calls onComplete(true),      *)
(* before it returns or in a later turn, and nothing is changed or reset.  *)
(* The event loop runs every scheduled run(), every pass runs to its end   *)
(* and every kept onComplete is eventually called.                         *)
(***************************************************************************)
SetTasksBeforeRun(m) ==
  /\ hist = <<>>
  /\ SetTasksAccepted(m)

SucceedingCallbackKinds == {"async", "sync_true"}

LiveNext ==
  \/ \E m \in AcyclicInputs : SetTasksBeforeRun(m)
  \/ Run
  \/ RunDeferred
  \/ RunDispatch
  \/ \E kind \in SucceedingCallbackKinds : RunCallback(kind)
  \/ \E c \in callbacks : OnComplete(c, TRUE)

LiveSpec ==
  /\ Init
  /\ [][LiveNext]_vars
  /\ WF_vars(RunDeferred)
  /\ WF_vars(RunDispatch)
  /\ WF_vars(\E kind \in SucceedingCallbackKinds : RunCallback(kind))
  /\ WF_vars(\E c \in callbacks : OnComplete(c, TRUE))

(***************************************************************************)
(* The Workspace and its Projects (src/unnamed/part_011), on top of the    *)
(* TaskTree above.  Project ids are config paths, the integers of TaskIds. *)
(* The disk is the sequence of the configuration files that exist, each    *)
(* with the deps its configuration declares; a path without a file fails   *)
(* to load.  Texts are strings; a child process is named by the execution  *)
(* it was forked for.                                                      *)
(***************************************************************************)
MaxEvents == 2      \* file changes, watcher events and scheduleUpdate calls in one behaviour
MaxChunks == 1      \* chunks of child output held by one output buffer

File(configPath, deps) == [configPath |-> configPath, deps |-> deps]

\* The disks of the model: a project with a dependency, the two depending
\* on each other, a single project, a root that does not exist and a
\* dependency that does not exist.
DiskOptions ==
  { <<File(1, <<2>>), File(2, <<>>)>>,
    <<File(1, <<2>>), File(2, <<1>>)>>,
    <<File(1, <<>>)>>,
    <<>>,
    <<File(1, <<2>>)>> }

\* Workspace._options.roots
WorkspaceRoots == <<1>>

ExitCodes == {0, 7}

\* readSingleConfig: a path that does not exist gives an error and no config.
readSingleConfig(files, configPath) ==
  IF \E i \in 1..Len(files) : files[i].configPath = configPath
  THEN LET file == files[CHOOSE i \in 1..Len(files) : files[i].configPath = configPath]
       IN [configPath |-> configPath, error |-> FALSE, deps |-> file.deps]
  ELSE [configPath |-> configPath, error |-> TRUE, deps |-> <<>>]

HasConfig(results, configPath) ==
  \E i \in 1..Len(results) : results[i].configPath = configPath

\* Map.set: an existing key keeps its place.
SetConfig(results, result) ==
  IF HasConfig(results, result.configPath)
  THEN [i \in 1..Len(results) |->
          IF results[i].configPath = result.configPath THEN result ELSE results[i]]
  ELSE Append(results, result)

\* Mutant: only the first dependency of a configuration is enqueued.
RECURSIVE readConfigQueueFirstDep(_, _, _)
readConfigQueueFirstDep(files, queue, results) ==
  IF queue = <<>> THEN results
  ELSE LET configPath == queue[Len(queue)]
           result == readSingleConfig(files, configPath)
           set == SetConfig(results, result)
           first == IF result.deps = <<>> THEN <<>> ELSE <<result.deps[1]>>
           children == SelectSeq(first, LAMBDA child : ~HasConfig(set, child))
       IN readConfigQueueFirstDep(files, SubSeq(queue, 1, Len(queue) - 1) \o children, set)

\* readConfigTree: the loop over the queue, reading the files as they are
\* when the read ends.
RECURSIVE readConfigQueue(_, _, _)
readConfigQueue(files, queue, results) ==
  IF queue = <<>> THEN results
  ELSE LET configPath == queue[Len(queue)]
           result == readSingleConfig(files, configPath)
           set == SetConfig(results, result)
           children == SelectSeq(result.deps, LAMBDA child : ~HasConfig(set, child))
       IN readConfigQueue(files, SubSeq(queue, 1, Len(queue) - 1) \o children, set)

readConfigTree(files, rootPaths) == readConfigQueue(files, rootPaths, <<>>)

\* readConfigTree as it reads a whole level at a time (Promise.all over
\* configsToRead): every path of the level is read and set, then the deps
\* that have no result yet make the next level.
RECURSIVE readConfigLevel(_, _, _, _)
readConfigLevel(files, configsToRead, k, results) ==
  IF k > Len(configsToRead) THEN results
  ELSE readConfigLevel(files, configsToRead, k + 1,
                       SetConfig(results, readSingleConfig(files, configsToRead[k])))

RECURSIVE readConfigLevels(_, _, _)
readConfigLevels(files, configsToRead, results) ==
  IF configsToRead = <<>> THEN results
  ELSE LET set == readConfigLevel(files, configsToRead, 1, results)
           newConfigPaths ==
             Flatten([k \in 1..Len(configsToRead) |->
                        readSingleConfig(files, configsToRead[k]).deps])
       IN readConfigLevels(files,
                           SelectSeq(newConfigPaths, LAMBDA c : ~HasConfig(set, c)), set)

readConfigTreeByLevels(files, rootPaths) == readConfigLevels(files, rootPaths, <<>>)

\* The output texts of a Project.
FailedToLoad == "Failed to load configuration"
ExitedWithCode(code) == IF code = 0 THEN "(process exited with code=0)"
                        ELSE "(process exited with code=7)"
TerminatedByKubik == "(process terminated by Kubik)"
ChildText == "(a chunk of the child's stdout or stderr)"
ErrorMessage == "(the message of the child's error event)"

\* new Project(taskTree, configPath): subprocess is 0 when undefined;
\* abortListeners are the executions whose signal carries an abort listener
\* of this project; notified is a ghost, the output() a listener of
\* build_status_changed read when the task_reset listener emitted it last.
NewProject(configPath) ==
  [configPath |-> configPath, configurationError |-> FALSE, fsWatch |-> FALSE,
   subprocess |-> 0, output |-> <<>>, abortListeners |-> {}, notified |-> <<>>]

HasProject(ps, configPath) == \E j \in 1..Len(ps) : ps[j].configPath = configPath

ProjectIndex(ps, configPath) == CHOOSE j \in 1..Len(ps) : ps[j].configPath = configPath

\* Project.output()
output(project) ==
  IF project.configurationError THEN <<FailedToLoad>> ELSE project.output

\* The state the operations of the Workspace work on: the tree and the
\* fields of the Workspace.
World ==
  [tasks |-> tasks, status |-> status, hist |-> hist, deferred |-> deferred,
   projects |-> projects, procs |-> procs, updateData |-> updateData,
   timers |-> timers, workspaceError |-> workspaceError,
   errorEvents |-> errorEvents]

\* Workspace.workspaceStatus()
workspaceStatus == IF workspaceError # <<>> THEN "error" ELSE status

\* Project._killProcess on the project at index j.
killProcess(w, j) ==
  [w EXCEPT !.procs = @ \ {w.projects[j].subprocess},
            !.projects[j].subprocess = 0]

\* The abort listener of requestBuild on the project at index j.
onAbort(w, j) ==
  killProcess(IF w.projects[j].subprocess # 0
              THEN [w EXCEPT !.projects[j].output = Append(@, TerminatedByKubik)]
              ELSE w, j)

\* The task_reset listener of the project at index j, for its own task.
onTaskReset(w, j) ==
  LET emptied == [w EXCEPT !.projects[j].output = <<>>]
  IN [emptied EXCEPT !.projects[j].notified = output(emptied.projects[j])]

\* Mutant: requestBuild registers no abort listener.
RECURSIVE projectListenersNoAbort(_, _, _)
projectListenersNoAbort(w, after, j) ==
  IF j > Len(after.projects) THEN after
  ELSE LET project == after.projects[j]
           cancelled == {e \in 1..Len(w.hist) : ~w.hist[e].aborted /\ after.hist[e].aborted}
           reset == \E e \in cancelled : w.hist[e].task = project.configPath
           listened == IF reset THEN onTaskReset(after, j) ELSE after
       IN projectListenersNoAbort(w,
            [listened EXCEPT !.projects[j].abortListeners = @ \ cancelled],
            j + 1)

\* Mutant: the task_reset listener emits build_status_changed and leaves
\* the output as it is.
RECURSIVE projectListenersKeepOutput(_, _, _)
projectListenersKeepOutput(w, after, j) ==
  IF j > Len(after.projects) THEN after
  ELSE LET project == after.projects[j]
           cancelled == {e \in 1..Len(w.hist) : ~w.hist[e].aborted /\ after.hist[e].aborted}
           aborted == cancelled \cap project.abortListeners # {}
           reset == \E e \in cancelled : w.hist[e].task = project.configPath
           killed == IF aborted THEN onAbort(after, j) ELSE after
           listened == IF reset
                       THEN [killed EXCEPT !.projects[j].notified = output(killed.projects[j])]
                       ELSE killed
       IN projectListenersKeepOutput(w,
            [listened EXCEPT !.projects[j].abortListeners = @ \ cancelled],
            j + 1)

\* What the listeners of the Projects do during a call into the tree that
\* took w to after: _resetTask aborts the execution, so the abort listener
\* of requestBuild logs the termination and kills the child, and then
\* emits task_reset, so the task_reset listener empties the output.
RECURSIVE projectListeners(_, _, _)
projectListeners(w, after, j) ==
  IF j > Len(after.projects) THEN after
  ELSE LET project == after.projects[j]
           cancelled == {e \in 1..Len(w.hist) : ~w.hist[e].aborted /\ after.hist[e].aborted}
           aborted == cancelled \cap project.abortListeners # {}
           reset == \E e \in cancelled : w.hist[e].task = project.configPath
           killed == IF aborted THEN onAbort(after, j) ELSE after
           listened == IF reset THEN onTaskReset(killed, j) ELSE killed
       IN projectListeners(w,
            [listened EXCEPT !.projects[j].abortListeners = @ \ cancelled],
            j + 1)

treeCall(w, after) == projectListeners(w, after, 1)

\* setTimeout: a handle no armed timer and no record holds.
NewTimeout(w) ==
  CHOOSE h \in 1..(Cardinality(w.timers) + 2) : h \notin w.timers /\ h # w.updateData.timeout

\* Mutant: every call arms a timer of its own.
scheduleUpdateAlwaysArms(w, changedProject, needsRereadConfigFiles) ==
  IF changedProject = 0 /\ ~needsRereadConfigFiles THEN w
  ELSE LET armed == [w EXCEPT !.updateData =
                                IF w.updateData.present
                                THEN [@ EXCEPT !.timeout = NewTimeout(w)]
                                ELSE [NoUpdateData EXCEPT !.present = TRUE,
                                                          !.timeout = NewTimeout(w)],
                              !.timers = @ \cup {NewTimeout(w)}]
       IN [armed EXCEPT
             !.updateData.changedProjects =
                IF changedProject # 0 THEN @ \cup {changedProject} ELSE @,
             !.updateData.needsRereadConfigFiles = @ \/ needsRereadConfigFiles]

\* Workspace._scheduleUpdate; changedProject is 0 when the option is absent.
scheduleUpdate(w, changedProject, needsRereadConfigFiles) ==
  IF changedProject = 0 /\ ~needsRereadConfigFiles THEN w
  ELSE LET armed == IF w.updateData.present THEN w
                    ELSE [w EXCEPT !.updateData = [NoUpdateData EXCEPT
                                                     !.present = TRUE,
                                                     !.timeout = NewTimeout(w)],
                                   !.timers = @ \cup {NewTimeout(w)}]
       IN [armed EXCEPT
             !.updateData.changedProjects =
                IF changedProject # 0 THEN @ \cup {changedProject} ELSE @,
             !.updateData.needsRereadConfigFiles = @ \/ needsRereadConfigFiles]

\* _doUpdate up to the await: the record is pulled and replaced by an empty
\* one that keeps the handle, and the changes go to the tree.
RECURSIVE markChangedEach(_, _, _)
markChangedEach(w, changed, k) ==
  IF k > Len(changed) THEN w
  ELSE markChangedEach(treeCall(w, markChangedBody(w, changed[k])), changed, k + 1)

doUpdateBegin(w) ==
  LET pulled == [w EXCEPT !.updateData.changedProjects = {},
                          !.updateData.needsRereadConfigFiles = FALSE]
  IN markChangedEach(pulled, SetToSortedSeq(w.updateData.changedProjects), 1)

\* Mutant: changes that came in during the pass arm no timer.
doUpdateEndArmsNoTimer(w) ==
  IF w.updateData.changedProjects # {} \/ w.updateData.needsRereadConfigFiles
  THEN [world |-> w, runs |-> FALSE]
  ELSE [world |-> [w EXCEPT !.updateData = NoUpdateData], runs |-> TRUE]

\* _doUpdate after the await: changes that came in meanwhile arm the timer
\* again, otherwise the record goes and the tree runs.
doUpdateEnd(w) ==
  IF w.updateData.changedProjects # {} \/ w.updateData.needsRereadConfigFiles
  THEN [world |-> [w EXCEPT !.updateData.timeout = NewTimeout(w),
                            !.timers = @ \cup {NewTimeout(w)}],
        runs |-> FALSE]
  ELSE [world |-> [w EXCEPT !.updateData = NoUpdateData], runs |-> TRUE]

\* Workspace._setWorkspaceError
setWorkspaceError(w, error) ==
  IF error = w.workspaceError THEN w
  ELSE [w EXCEPT !.workspaceError = error, !.errorEvents = @ + 1]

\* The Multimap _readConfiguration builds: projectTree.setAll(key, deps).
projectTree(configs) ==
  [i \in 1..Len(configs) |-> Entry(configs[i].configPath, configs[i].deps)]

\* Mutant: a cycle is reported and the tasks are kept.
readConfigurationTreeKeepsTasks(w, configs) ==
  LET cycle == findDependencyCycle(projectTree(configs))
  IN IF cycle # <<>>
     THEN setWorkspaceError(w, cycle)
     ELSE LET cleared == setWorkspaceError(w, <<>>)
          IN treeCall(cleared, setTasksBody(cleared, projectTree(configs)))

\* Mutant: a read without a cycle leaves the workspace error as it is.
readConfigurationTreeKeepsError(w, configs) ==
  LET cycle == findDependencyCycle(projectTree(configs))
  IN IF cycle # <<>>
     THEN LET failed == setWorkspaceError(w, cycle)
          IN treeCall(failed, setTasksBody(failed, <<>>))
     ELSE treeCall(w, setTasksBody(w, projectTree(configs)))

\* _readConfiguration from the end of readConfigTree to the loops over the
\* projects.
readConfigurationTree(w, configs) ==
  LET cycle == findDependencyCycle(projectTree(configs))
  IN IF cycle # <<>>
     THEN LET failed == setWorkspaceError(w, cycle)
          IN treeCall(failed, setTasksBody(failed, <<>>))
     ELSE LET cleared == setWorkspaceError(w, <<>>)
          IN treeCall(cleared, setTasksBody(cleared, projectTree(configs)))

\* Project.stopFileWatch up to its await.
stopFileWatch(w, j) == [w EXCEPT !.projects[j].fsWatch = FALSE]

\* Project.setConfiguration
setConfiguration(w, j, result) ==
  IF w.projects[j].configurationError # result.error
  THEN [w EXCEPT !.projects[j].configurationError = result.error,
                 !.projects[j].output = IF result.error THEN <<FailedToLoad>> ELSE @]
  ELSE w

\* The projects that are no key of configs, in Map order.
RemovedProjects(ps, configs) ==
  SelectSeq([j \in 1..Len(ps) |-> ps[j].configPath],
            LAMBDA configPath : ~HasConfig(configs, configPath))

Suspended(w, pass) == [world |-> w, suspended |-> TRUE, pass |-> pass]

Completed(w) == [world |-> w, suspended |-> FALSE, pass |-> [pc |-> "done"]]

\* The second loop of _readConfiguration from configs[k] on, up to the next
\* await: projects are created and configured, and in watch mode the loop
\* waits for startFileWatch, which first stops the watch it has.
RECURSIVE createProjects(_, _, _)
createProjects(w, configs, k) ==
  IF k > Len(configs) THEN Completed(w)
  ELSE LET configPath == configs[k].configPath
           added == IF HasProject(w.projects, configPath) THEN w
                    ELSE [w EXCEPT !.projects = Append(@, NewProject(configPath))]
           j == ProjectIndex(added.projects, configPath)
           configured == setConfiguration(added, j, configs[k])
       IN IF watchMode
          THEN Suspended(stopFileWatch(configured, j),
                         [pc |-> "watch", configs |-> configs, k |-> k])
          ELSE createProjects(configured, configs, k + 1)

\* The first loop of _readConfiguration up to the next await: the first
\* project that was removed is disposed, and dispose waits for
\* stopFileWatch.
removeProjects(w, configs) ==
  LET removed == RemovedProjects(w.projects, configs)
  IN IF removed = <<>> THEN createProjects(w, configs, 1)
     ELSE Suspended(stopFileWatch(w, ProjectIndex(w.projects, removed[1])),
                    [pc |-> "dispose", configs |-> configs, k |-> 0])

(***************************************************************************)
(* The state machine of the Workspace.  A turn of the event loop (a timer, *)
(* a watcher or child process event, a client call, the end of an await)   *)
(* starts when the run() pass and the promise jobs of the turn before are  *)
(* done.                                                                   *)
(***************************************************************************)
Turn == pc = "idle" /\ deferred = 0

ReadPass == [pc |-> "read", configs |-> <<>>, k |-> 0]

RemoveAt(s, i) == SubSeq(s, 1, i - 1) \o SubSeq(s, i + 1, Len(s))

\* With the two projects of the model, jobs = 2 is jobs = Infinity.
WorkspaceJobs == {[infinite |-> FALSE, n |-> 1], [infinite |-> TRUE, n |-> 0]}

\* new Workspace(options): the constructor schedules the first read.
WorkspaceInit ==
  /\ tasks = <<>>
  /\ roots = <<>>
  /\ status = "ok"
  /\ jobs \in WorkspaceJobs
  /\ pc = "idle"
  /\ runQueue = <<>>
  /\ deferred = 0
  /\ callbacks = {}
  /\ hist = <<>>
  /\ accepted = [ids |-> {}, edges |-> {}]
  /\ last = Returned
  /\ nCalls = 0
  /\ disk \in DiskOptions
  /\ watchMode \in BOOLEAN
  /\ projects = <<>>
  /\ procs = {}
  /\ updateData = [NoUpdateData EXCEPT !.present = TRUE, !.timeout = 1,
                                       !.needsRereadConfigFiles = TRUE]
  /\ timers = {1}
  /\ workspaceError = <<>>
  /\ passes = <<>>
  /\ stopPc = StopNone
  /\ nEvents = 0
  /\ errorEvents = 0
  /\ lastRead = "none"

ApplyWorkspace(w) ==
  /\ projects' = w.projects
  /\ procs' = w.procs
  /\ updateData' = w.updateData
  /\ timers' = w.timers
  /\ workspaceError' = w.workspaceError
  /\ errorEvents' = w.errorEvents
  /\ roots' = figureOutRoots(w.tasks)

\* A turn that leaves run() alone.
ApplyWorld(w) ==
  /\ Apply(w)
  /\ ApplyWorkspace(w)
  /\ callbacks' = Rebind(w.tasks)
  /\ UNCHANGED <<pc, runQueue>>

\* The pass at index i goes on from r: it waits at the next await, or
\* _doUpdate ends.
ContinuePass(r, i) ==
  IF r.suspended
  THEN /\ passes' = [passes EXCEPT ![i] = r.pass]
       /\ ApplyWorld(r.world)
  ELSE \E end \in {doUpdateEnd(r.world)} :
          /\ passes' = RemoveAt(passes, i)
          /\ ApplyWorkspace(end.world)
          /\ callbacks' = Rebind(end.world.tasks)
          /\ IF end.runs THEN runEnter(end.world)
             ELSE Apply(end.world) /\ UNCHANGED <<pc, runQueue>>

\* A file of the workspace is written or deleted.
DiskChange(files) ==
  /\ Turn
  /\ nEvents < MaxEvents
  /\ files # disk
  /\ disk' = files
  /\ nEvents' = nEvents + 1
  /\ UNCHANGED <<tasks, roots, status, jobs, pc, runQueue, deferred, callbacks, hist,
                 accepted, last, nCalls, lastRead, watchMode, projects, procs, updateData, timers,
                 workspaceError, passes, stopPc, errorEvents>>

\* The watcher of the project at index j reports a file: the callback
\* _readConfiguration gave to startFileWatch.
FileEvent(j, isConfigPath) ==
  /\ Turn
  /\ nEvents < MaxEvents
  /\ j \in 1..Len(projects)
  /\ projects[j].fsWatch
  /\ ApplyWorld(scheduleUpdate(World, projects[j].configPath, isConfigPath))
  /\ nEvents' = nEvents + 1
  /\ UNCHANGED <<jobs, accepted, last, nCalls, lastRead, disk, watchMode, passes, stopPc>>

\* The client calls workspace.scheduleUpdate(project).
ScheduleUpdate(j) ==
  /\ Turn
  /\ nEvents < MaxEvents
  /\ j \in 1..Len(projects)
  /\ ApplyWorld(scheduleUpdate(World, projects[j].configPath, FALSE))
  /\ nEvents' = nEvents + 1
  /\ UNCHANGED <<jobs, accepted, last, nCalls, lastRead, disk, watchMode, passes, stopPc>>

\* The timer h fires: _doUpdate up to its await or, without a re-read, to
\* its end.
DoUpdate(h) ==
  /\ Turn
  /\ h \in timers
  /\ \E fired \in {[World EXCEPT !.timers = @ \ {h}]} :
       IF ~updateData.present
       THEN ApplyWorld(fired) /\ UNCHANGED passes
       ELSE \E begun \in {doUpdateBegin(fired)} :
              IF updateData.needsRereadConfigFiles
              THEN passes' = Append(passes, ReadPass) /\ ApplyWorld(begun)
              ELSE ContinuePass(Completed(begun), Len(passes) + 1)
  /\ UNCHANGED <<jobs, accepted, last, nCalls, lastRead, disk, watchMode, stopPc, nEvents>>

\* readConfigTree resolves for the pass at index i.
ReadConfiguration(i) ==
  /\ Turn
  /\ i \in 1..Len(passes)
  /\ passes[i].pc = "read"
  /\ \E configs \in {readConfigTree(disk, WorkspaceRoots)} :
       /\ \E r \in {removeProjects(readConfigurationTree(World, configs), configs)} :
            ContinuePass(r, i)
       /\ lastRead' = IF HasCycle(EdgesOf(projectTree(configs))) THEN "cycle"
                      ELSE "acyclic"
       /\ accepted' = IF findDependencyCycle(projectTree(configs)) # <<>>
                      THEN [ids |-> {}, edges |-> {}]
                      ELSE [ids |-> IdsOf(projectTree(configs)),
                            edges |-> EdgesOf(projectTree(configs))]
  /\ UNCHANGED <<jobs, last, nCalls, disk, watchMode, stopPc, nEvents>>

\* project.dispose() resolves for the pass at index i: the child is killed
\* and the project leaves the Map.
ProjectRemoved(i) ==
  /\ Turn
  /\ i \in 1..Len(passes)
  /\ passes[i].pc = "dispose"
  /\ LET removed == RemovedProjects(projects, passes[i].configs)
     IN /\ removed # <<>>
        /\ LET j == ProjectIndex(projects, removed[1])
               killed == killProcess(World, j)
               deleted == [killed EXCEPT !.projects = RemoveAt(@, j)]
           IN \E r \in {removeProjects(deleted, passes[i].configs)} : ContinuePass(r, i)
  /\ UNCHANGED <<jobs, accepted, last, nCalls, lastRead, disk, watchMode, stopPc, nEvents>>

\* project.startFileWatch() resolves for the pass at index i: the watcher
\* is created.
FileWatchStarted(i) ==
  /\ Turn
  /\ i \in 1..Len(passes)
  /\ passes[i].pc = "watch"
  /\ LET configPath == passes[i].configs[passes[i].k].configPath
         watched == IF HasProject(projects, configPath)
                    THEN [World EXCEPT
                            !.projects[ProjectIndex(projects, configPath)].fsWatch = TRUE]
                    ELSE World
     IN \E r \in {createProjects(watched, passes[i].configs, passes[i].k + 1)} :
          ContinuePass(r, i)
  /\ UNCHANGED <<jobs, accepted, last, nCalls, lastRead, disk, watchMode, stopPc, nEvents>>

\* Mutant: a configuration error does not stop the fork.
requestBuildIgnoresError(w, j, c) ==
  LET killed == killProcess(w, j)
  IN [killed EXCEPT !.projects[j].subprocess = c.exec,
                    !.projects[j].abortListeners = @ \cup {c.exec},
                    !.procs = @ \cup {c.exec}]

\* Mutant: the output is emptied when the build is requested.
requestBuildResetsOutput(w, j, c) ==
  IF w.projects[j].configurationError THEN onTaskComplete(w, c, FALSE)
  ELSE LET killed == killProcess(w, j)
       IN [killed EXCEPT !.projects[j].subprocess = c.exec,
                         !.projects[j].output = <<>>,
                         !.projects[j].abortListeners = @ \cup {c.exec},
                         !.procs = @ \cup {c.exec}]

\* Project.requestBuild(options) of the project at index j, options.onComplete
\* being the closure c: fork is taken to succeed, and the child is named by
\* the execution.
requestBuild(w, j, c) ==
  IF w.projects[j].configurationError THEN onTaskComplete(w, c, FALSE)
  ELSE LET killed == killProcess(w, j)
       IN [killed EXCEPT !.projects[j].subprocess = c.exec,
                         !.projects[j].abortListeners = @ \cup {c.exec},
                         !.procs = @ \cup {c.exec}]

\* The run callback of the Workspace: this._projects.get(taskId)?.requestBuild(options).
RequestBuild ==
  /\ pc = "callback"
  /\ \E w \in {IF HasProject(projects, Head(runQueue))
                 THEN requestBuild(World, ProjectIndex(projects, Head(runQueue)),
                                   NewCallback)
                 ELSE World} :
       Apply(w) /\ ApplyWorkspace(w)
  /\ callbacks' = callbacks \cup {NewCallback}
  /\ runQueue' = Tail(runQueue)
  /\ pc' = IF Tail(runQueue) = <<>> THEN "idle" ELSE "dispatch"
  /\ UNCHANGED <<jobs, accepted, last, nCalls, lastRead, disk, watchMode, passes, stopPc, nEvents>>

\* The options.onComplete the child of the project at index j was forked with.
OnCompleteOf(project) == CHOOSE c \in callbacks : c.exec = project.subprocess

\* The 'message' listener of the child: the child sent MSG_TASK_DONE.
ChildDone(j) ==
  /\ Turn
  /\ j \in 1..Len(projects)
  /\ projects[j].subprocess # 0
  /\ ApplyWorld(onTaskComplete(World, OnCompleteOf(projects[j]), TRUE))
  /\ UNCHANGED <<jobs, accepted, last, nCalls, lastRead, disk, watchMode, passes, stopPc, nEvents>>

\* Mutant: a close without the sentinel completes the task as success,
\* whatever the exit code.
childCloseIgnoresCode(w, j, c, code) ==
  LET project == w.projects[j]
      reported == IF taskStatus(w.tasks, w.status, project.configPath) = "running"
                  THEN onTaskComplete(w, c, TRUE)
                  ELSE [w EXCEPT !.projects[j].output = Append(@, ExitedWithCode(code))]
  IN killProcess(reported, j)

\* Mutant: the exit code is reported as an outcome whatever the task status.
childCloseAlwaysCompletes(w, j, c, code) ==
  killProcess(onTaskComplete(w, c, code = 0), j)

\* The 'close' listener of the child of the project at index j.
childClose(w, j, c, code) ==
  LET project == w.projects[j]
      reported == IF taskStatus(w.tasks, w.status, project.configPath) = "running"
                  THEN onTaskComplete(w, c, code = 0)
                  ELSE [w EXCEPT !.projects[j].output = Append(@, ExitedWithCode(code))]
  IN killProcess(reported, j)

\* The child of the project at index j exits with the given code.
ChildClose(j, code) ==
  /\ Turn
  /\ j \in 1..Len(projects)
  /\ projects[j].subprocess # 0
  /\ HasTask(tasks, projects[j].configPath)
  /\ ApplyWorld(childClose(World, j, OnCompleteOf(projects[j]), code))
  /\ UNCHANGED <<jobs, accepted, last, nCalls, lastRead, disk, watchMode, passes, stopPc, nEvents>>

\* Project._onStdOut and _onStdErr for a chunk the child wrote.
onStdOut(w, j) == [w EXCEPT !.projects[j].output = Append(@, ChildText)]

Chunks(out) == Len(SelectSeq(out, LAMBDA text : text = ChildText))

\* The 'data' listeners of the child's stdout and stderr: the child of the
\* project at index j writes a chunk.
ChildData(j) ==
  /\ Turn
  /\ j \in 1..Len(projects)
  /\ projects[j].subprocess # 0
  /\ Chunks(projects[j].output) < MaxChunks
  /\ ApplyWorld(onStdOut(World, j))
  /\ UNCHANGED <<jobs, accepted, last, nCalls, lastRead, disk, watchMode, passes, stopPc, nEvents>>

\* The 'error' listener of the child of the project at index j.
childError(w, j, c) ==
  LET completed == onTaskComplete(w, c, FALSE)
  IN killProcess([completed EXCEPT !.projects[j].output = Append(@, ErrorMessage)], j)

\* The child of the project at index j could not be spawned: its 'error'
\* event comes before it has written or sent anything.
ChildError(j) ==
  /\ Turn
  /\ j \in 1..Len(projects)
  /\ projects[j].subprocess # 0
  /\ Chunks(projects[j].output) = 0
  /\ HasTask(tasks, projects[j].configPath)
  /\ GetTask(tasks, projects[j].configPath).execution.success = "undefined"
  /\ ApplyWorld(childError(World, j, OnCompleteOf(projects[j])))
  /\ UNCHANGED <<jobs, accepted, last, nCalls, lastRead, disk, watchMode, passes, stopPc, nEvents>>

\* The loop of stop() up to the next await: the next project of the Map is
\* disposed, and dispose waits for stopFileWatch.
stopLoop(w, disposed) ==
  LET remaining == SelectSeq([j \in 1..Len(w.projects) |-> w.projects[j].configPath],
                             LAMBDA configPath : configPath \notin disposed)
  IN IF remaining = <<>>
     THEN [world |-> w, stop |-> [pc |-> "resolved", project |-> 0, disposed |-> disposed]]
     ELSE [world |-> stopFileWatch(w, ProjectIndex(w.projects, remaining[1])),
           stop |-> [pc |-> "dispose", project |-> remaining[1], disposed |-> disposed]]

\* stop() up to its loop: clearTimeout and resetAllTasks.
stopBegin(w) ==
  LET cleared == [w EXCEPT !.timers = @ \ {w.updateData.timeout}]
  IN treeCall(cleared, resetAllTasksBody(cleared))

\* The client calls workspace.stop().
Stop ==
  /\ Turn
  /\ stopPc.pc = "none"
  /\ \E r \in {stopLoop(stopBegin(World), {})} :
       ApplyWorld(r.world) /\ stopPc' = r.stop
  /\ UNCHANGED <<jobs, accepted, last, nCalls, lastRead, disk, watchMode, passes, nEvents>>

\* project.dispose() resolves for stop(): the child is killed and the loop
\* goes on.
StopProjectDisposed ==
  /\ Turn
  /\ stopPc.pc = "dispose"
  /\ LET killed == IF HasProject(projects, stopPc.project)
                   THEN killProcess(World, ProjectIndex(projects, stopPc.project))
                   ELSE World
     IN \E r \in {stopLoop(killed, stopPc.disposed \cup {stopPc.project})} :
          ApplyWorld(r.world) /\ stopPc' = r.stop
  /\ UNCHANGED <<jobs, accepted, last, nCalls, lastRead, disk, watchMode, passes, nEvents>>

ProjectSlots == 1..2

WorkspaceNext ==
  \/ \E files \in DiskOptions : DiskChange(files)
  \/ \E j \in ProjectSlots, isConfigPath \in BOOLEAN : FileEvent(j, isConfigPath)
  \/ \E j \in ProjectSlots : ScheduleUpdate(j)
  \/ \E h \in timers : DoUpdate(h)
  \/ \E i \in 1..Len(passes) : ReadConfiguration(i)
  \/ \E i \in 1..Len(passes) : ProjectRemoved(i)
  \/ \E i \in 1..Len(passes) : FileWatchStarted(i)
  \/ RunDeferred
  \/ RunDispatch
  \/ RequestBuild
  \/ \E j \in ProjectSlots : ChildData(j)
  \/ \E j \in ProjectSlots : ChildDone(j)
  \/ \E j \in ProjectSlots, code \in ExitCodes : ChildClose(j, code)
  \/ \E j \in ProjectSlots : ChildError(j)
  \/ Stop
  \/ StopProjectDisposed

WorkspaceSpec == WorkspaceInit /\ [][WorkspaceNext]_vars

(***************************************************************************)
(* The first configuration read of a Workspace, over every disk with up to *)
(* three configuration files: each path has no file, or a file whose deps  *)
(* are any sequence of up to two paths or any order of the three.          *)
(***************************************************************************)
DepsOptions ==
  UNION { {<<>>},
          {<<a>> : a \in TaskIds},
          {<<a, b>> : a, b \in TaskIds},
          {s \in {<<a, b, c>> : a, b, c \in TaskIds} : Range(s) = TaskIds} }

NoFile == <<0>>

DiskOf(f) ==
  LET paths == SetToSortedSeq({configPath \in TaskIds : f[configPath] # NoFile})
  IN [k \in 1..Len(paths) |-> File(paths[k], f[paths[k]])]

AllDisks == {DiskOf(f) : f \in [TaskIds -> DepsOptions \cup {NoFile}]}

ReadInit ==
  /\ tasks = <<>>
  /\ roots = <<>>
  /\ status = "ok"
  /\ jobs \in WorkspaceJobs
  /\ pc = "idle"
  /\ runQueue = <<>>
  /\ deferred = 0
  /\ callbacks = {}
  /\ hist = <<>>
  /\ accepted = [ids |-> {}, edges |-> {}]
  /\ last = Returned
  /\ nCalls = 0
  /\ disk \in AllDisks
  /\ watchMode = FALSE
  /\ projects = <<>>
  /\ procs = {}
  /\ updateData = [NoUpdateData EXCEPT !.present = TRUE, !.timeout = 1,
                                       !.needsRereadConfigFiles = TRUE]
  /\ timers = {1}
  /\ workspaceError = <<>>
  /\ passes = <<>>
  /\ stopPc = StopNone
  /\ nEvents = 0
  /\ errorEvents = 0
  /\ lastRead = "none"

ReadNext ==
  \/ \E h \in timers : DoUpdate(h)
  \/ \E i \in 1..Len(passes) : ReadConfiguration(i)

ReadSpec == ReadInit /\ [][ReadNext]_vars

(***************************************************************************)
(* A Workspace in watch mode whose root has one dependency and gains a     *)
(* second one while the first is being built: the configuration of the     *)
(* root is rewritten and its watcher reports it.                           *)
(***************************************************************************)
RootWithDep == <<File(1, <<2>>), File(2, <<>>)>>

RootWithTwoDeps == <<File(1, <<2, 3>>), File(2, <<>>), File(3, <<>>)>>

GrowingSlots == 1..3

GrowingInit == WorkspaceInit /\ disk = RootWithDep /\ watchMode

GrowingNext ==
  \/ DiskChange(RootWithTwoDeps)
  \/ \E j \in GrowingSlots, isConfigPath \in BOOLEAN : FileEvent(j, isConfigPath)
  \/ \E h \in timers : DoUpdate(h)
  \/ \E i \in 1..Len(passes) : ReadConfiguration(i)
  \/ \E i \in 1..Len(passes) : FileWatchStarted(i)
  \/ RunDeferred
  \/ RunDispatch
  \/ RequestBuild
  \/ \E j \in GrowingSlots : ChildDone(j)
  \/ \E j \in GrowingSlots, code \in ExitCodes : ChildClose(j, code)

GrowingSpec == GrowingInit /\ [][GrowingNext]_vars

(***************************************************************************)
(* A Workspace that is not stopped, over one project whose configuration   *)
(* file comes and goes.  The event loop is fair: an armed timer fires,     *)
(* every await resolves, every scheduled run() runs and every run() pass   *)
(* runs to its end.  That readConfigTree resolves is stated on the states: *)
(* no pass waits for it forever.  What the children write is left out: it  *)
(* goes to the output buffers only.                                        *)
(***************************************************************************)
Reading == \E i \in 1..Len(passes) : passes[i].pc = "read"

SingleProjectDisks == {files \in DiskOptions : \A i \in 1..Len(files) : files[i].deps = <<>>}

SingleProjectInit == WorkspaceInit /\ disk \in SingleProjectDisks

RunningNext ==
  \/ \E files \in SingleProjectDisks : DiskChange(files)
  \/ \E j \in ProjectSlots, isConfigPath \in BOOLEAN : FileEvent(j, isConfigPath)
  \/ \E j \in ProjectSlots : ScheduleUpdate(j)
  \/ \E h \in timers : DoUpdate(h)
  \/ \E i \in 1..Len(passes) : ReadConfiguration(i)
  \/ \E i \in 1..Len(passes) : FileWatchStarted(i)
  \/ RunDeferred
  \/ RunDispatch
  \/ RequestBuild
  \/ \E j \in ProjectSlots : ChildDone(j)
  \/ \E j \in ProjectSlots, code \in ExitCodes : ChildClose(j, code)

RunningSpec ==
  /\ SingleProjectInit
  /\ [][RunningNext]_vars
  /\ WF_vars(\E h \in timers : DoUpdate(h))
  /\ []<>(~Reading)
  /\ WF_vars(\E i \in 1..Len(passes) : FileWatchStarted(i))
  /\ WF_vars(RunDeferred)
  /\ WF_vars(RunDispatch)
  /\ WF_vars(RequestBuild)


(***************************************************************************)
(* Properties.                                                             *)
(***************************************************************************)
ChildEdges(ts) ==
  UNION {{<<ts[i].taskId, ts[i].children[j]>> : j \in 1..Len(ts[i].children)}
         : i \in 1..Len(ts)}

ParentEdges(ts) ==
  UNION {{<<ts[i].parents[j], ts[i].taskId>> : j \in 1..Len(ts[i].parents)}
         : i \in 1..Len(ts)}

TaskState(ts, taskId) ==
  IF ~HasTask(ts, taskId) THEN "absent"
  ELSE LET execution == GetTask(ts, taskId).execution
       IN IF ~execution.present THEN "idle"
          ELSE IF execution.success = "undefined" THEN "running"
          ELSE IF execution.success = "true" THEN "ok" ELSE "fail"

Started == <<"task_started">>
StartedFinished == <<"task_started", "task_finished">>
StartedReset == <<"task_started", "task_reset">>
StartedFinishedReset == <<"task_started", "task_finished", "task_reset">>

\* The execution object e is the execution of some task of the tree.
Attached(e) ==
  \E i \in 1..Len(tasks) : tasks[i].execution.present /\ tasks[i].execution.id = e

\* findDependencyCycle reports a cycle exactly for the adjacencies that have one.
CycleDetectionExact ==
  \A m \in AllAdjacencies : (findDependencyCycle(m) # <<>>) <=> HasCycle(EdgesOf(m))

C1_Step ==
  /\ (nCalls' # nCalls /\ last'.argCyclic) => last'.result = "CycleError"
  /\ (nCalls' # nCalls /\ last'.result = "CycleError") =>
       /\ last'.argCyclic
       /\ UNCHANGED <<tasks, roots, status, hist, deferred, callbacks, accepted, pc,
                      runQueue>>

\* C1: setTasks(A) throws CycleError exactly when A has a directed cycle
\* (self-loop and rootless graphs included), and a rejected call leaves the
\* tasks, edges, generations, digests, executions and tree status unchanged
\* and emits no event.
C1_CycleErrorExactAndAtomic == [][CycleDetectionExact /\ C1_Step]_vars

\* A CycleError thrown while a task has an execution.
C1_Witness ==
  /\ last.result = "CycleError"
  /\ \E i \in 1..Len(tasks) : tasks[i].execution.present

\* C2: in every reachable state the stored parent/child links equal the last
\* accepted adjacency, are acyclic, and b is a child of a iff a is a parent
\* of b.
C2_LinksEqualAcceptedAdjacency ==
  /\ {tasks[i].taskId : i \in 1..Len(tasks)} = accepted.ids
  /\ ChildEdges(tasks) = accepted.edges
  /\ ParentEdges(tasks) = accepted.edges
  /\ ~HasCycle(ChildEdges(tasks))
  /\ \A i \in 1..Len(tasks) :
       /\ Cardinality(Range(tasks[i].children)) = Len(tasks[i].children)
       /\ Cardinality(Range(tasks[i].parents)) = Len(tasks[i].parents)
       /\ \A j \in 1..Len(tasks) : i # j => tasks[i].taskId # tasks[j].taskId

\* A task with two parents, after a markChanged that reached it.
C2_Witness ==
  \E i \in 1..Len(tasks) : Len(tasks[i].parents) = 2 /\ tasks[i].generation > 0

\* C3: every task that has an execution has the version the execution was
\* dispatched with.
C3_ExecutionVersionCurrent ==
  \A i \in 1..Len(tasks) :
    tasks[i].execution.present => taskVersion(tasks[i]) = tasks[i].execution.taskVersion

\* A task dispatched again after markChanged bumped its generation.
C3_Witness ==
  \E i \in 1..Len(tasks) : tasks[i].execution.present /\ tasks[i].generation > 0

C4_Step ==
  Len(hist') > Len(hist) =>
    /\ pc = "dispatch"
    /\ Len(hist') = Len(hist) + 1
    /\ LET task == GetTask(tasks, hist'[Len(hist')].task)
       IN /\ ~task.execution.present
          /\ \A j \in 1..Len(task.children) :
               LET child == GetTask(tasks, task.children[j])
               IN /\ child.execution.present
                  /\ child.execution.success = "true"
                  /\ child.execution.taskVersion = taskVersion(child)
                  /\ hist[child.execution.id].log = StartedFinished

\* C4: a task is started only in a state where it has no execution and every
\* child has an execution with outcome success whose version is the child's
\* current version, so the child's task_finished precedes the parent's
\* task_started.
C4_StartedOnlyWhenRunnable == [][C4_Step]_vars

\* A task that has children has been started.
C4_Witness ==
  \E i \in 1..Len(tasks) : Len(tasks[i].children) > 0 /\ tasks[i].execution.present

\* C5: for a finite jobs >= 1 the executions without outcome, together with
\* the tasks the current run() pass has still to start, never exceed jobs.
C5_InFlightAtMostJobs ==
  ~jobs.infinite =>
    Len(tasksBeingRun(tasks))
      + (IF pc = "callback" THEN Len(runQueue) - 1 ELSE Len(runQueue)) <= jobs.n

\* jobs = 2: two tasks are running and a third one waits although runnable.
C5_Witness ==
  /\ ~jobs.infinite /\ jobs.n = 2
  /\ pc = "idle"
  /\ Len(tasksBeingRun(tasks)) = 2
  /\ Len(runnableTasks(tasks)) > 0

\* C6: once an execution's on_complete has taken effect, every later call of
\* that execution's on_complete changes no outcome and no task status and
\* emits no task_finished.
C6_Original ==
  [][\A c \in callbacks : \A success \in BOOLEAN :
       (OnComplete(c, success) /\ Contains(hist[c.exec].log, "task_finished"))
         => (tasks' = tasks /\ hist' = hist)]_vars

\* C7: once an execution has been cancelled, a later call of its on_complete
\* is ignored: no outcome is recorded, no task_finished is emitted and no
\* run() is scheduled, also when the task has been dispatched again.
C7_Original ==
  [][\A c \in callbacks : \A success \in BOOLEAN :
       (OnComplete(c, success) /\ hist[c.exec].aborted)
         => (tasks' = tasks /\ hist' = hist /\ deferred' = deferred)]_vars

\* C8 as stated: no execution gets both task_finished and task_reset.
C8_Original ==
  \A e \in 1..Len(hist) :
    ~(Contains(hist[e].log, "task_finished") /\ Contains(hist[e].log, "task_reset"))

\* C8, amended: per execution, task_started is followed by at most one
\* task_finished and at most one task_reset, never task_finished after
\* task_reset; task_reset is emitted exactly when the execution is cleared,
\* so an execution that finished and is cleared later gets both.
C8_FinishedThenMaybeReset ==
  \A e \in 1..Len(hist) :
    \/ hist[e].log \in {Started, StartedFinished} /\ Attached(e)
    \/ hist[e].log \in {StartedReset, StartedFinishedReset} /\ ~Attached(e)

\* An execution that finished and was reset afterwards.
C8_Witness == \E e \in 1..Len(hist) : hist[e].log = StartedFinishedReset

C9_Step ==
  /\ \A taskId \in TaskIds :
       LET a == TaskState(tasks, taskId)
           b == TaskState(tasks', taskId)
           e == GetTask(tasks, taskId).execution.id
       IN \/ a = b /\ a \in {"absent", "idle"}
          \/ a = b /\ GetTask(tasks', taskId).execution.id = e
          \/ a = "absent" /\ b = "idle"
          \/ a = "idle" /\ b = "absent"
          \/ /\ a = "idle" /\ b = "running"
             /\ pc = "dispatch" /\ Head(runQueue) = taskId
          \/ /\ a = "running" /\ b \in {"ok", "fail"}
             /\ GetTask(tasks', taskId).execution.id = e
             /\ hist'[e].log = Append(hist[e].log, "task_finished")
          \/ /\ a \in {"running", "ok", "fail"} /\ b \in {"idle", "absent"}
             /\ hist'[e].log = Append(hist[e].log, "task_reset")
  /\ Len(hist') > Len(hist) => TaskState(tasks, hist'[Len(hist')].task) = "idle"

\* C9: each task moves idle -> running only by a dispatch of run(), running
\* -> ok|fail only by an effective on_complete, and from running, ok or fail
\* to idle only by a reset; no ok<->fail, ok->running or fail->running step,
\* and task_started is never emitted for a task that has an execution.
C9_TaskStateMachine == [][C9_Step]_vars

\* A task that was reset and is running again.
C9_Witness ==
  \E i \in 1..Len(tasks) :
    /\ tasks[i].execution.present /\ tasks[i].execution.success = "undefined"
    /\ \E e \in 1..Len(hist) :
         hist[e].task = tasks[i].taskId /\ Contains(hist[e].log, "task_reset")

\* C10: when the run callback is invoked task_started has been emitted for
\* the execution, so task_started is the first event of every execution also
\* for a synchronous on_complete; and when no execution was cancelled and the
\* tree has settled ok, every task was started and finished exactly once,
\* its children before it.
C10_StartedBeforeCallback ==
  /\ pc = "callback" =>
       LET execution == GetTask(tasks, Head(runQueue)).execution
       IN execution.present /\ hist[execution.id].log = Started
  /\ \A e \in 1..Len(hist) :
       /\ hist[e].log # <<>>
       /\ hist[e].log[1] = "task_started"
       /\ \A k \in 2..Len(hist[e].log) : hist[e].log[k] # "task_started"
  /\ (pc = "idle" /\ status = "ok" /\ \A e \in 1..Len(hist) : hist[e].log = StartedFinished)
       => \A i \in 1..Len(tasks) :
            /\ tasks[i].execution.present /\ tasks[i].execution.success = "true"
            /\ Cardinality({e \in 1..Len(hist) : hist[e].task = tasks[i].taskId}) = 1
            /\ \A j \in 1..Len(tasks[i].children) :
                 GetTask(tasks, tasks[i].children[j]).execution.id < tasks[i].execution.id

\* The callback of the latest execution completed it synchronously: the
\* run() pass is still in its loop.
C10_Witness ==
  /\ pc = "dispatch"
  /\ hist # <<>>
  /\ hist[Len(hist)].log = StartedFinished

\* The transitive parents of taskId in the stored graph.
Ancestors(ts, taskId) == {a \in TaskIds : taskId \in Descendants(ChildEdges(ts), a)}

\* The tasks markChanged(taskId) reaches: the task and its transitive parents.
Affected(ts, taskId) == {taskId} \cup Ancestors(ts, taskId)

C11_Step ==
  /\ deferred' > deferred =>
       /\ deferred' = deferred + 1
       /\ Len(hist') = Len(hist)
       /\ \A i \in 1..Len(tasks) :
            tasks'[i].execution.present = tasks[i].execution.present
       /\ pc \in {"idle", "callback"}
       /\ pc = "idle" => (pc' = "idle" /\ runQueue' = runQueue)
       /\ pc = "callback" => runQueue' = Tail(runQueue)
  /\ Len(hist') > Len(hist) => (pc = "dispatch" /\ deferred' = deferred)
  /\ (pc # "idle" /\ pc' # "idle") => (runQueue' \in {runQueue, Tail(runQueue)}
                                        /\ deferred' >= deferred)

\* C11: an on_complete call starts no task: it only schedules a run() pass
\* for a later turn; a run() pass is entered only when no pass is on the
\* stack, and executions are created only by the dispatch loop of a pass.
C11_OnCompleteNeverStartsATask == [][C11_Step]_vars

\* on_complete was called while run() was on the stack: the pass is still in
\* its loop and a run() is scheduled.
C11_Witness ==
  /\ pc = "dispatch"
  /\ deferred > 0
  /\ hist # <<>>
  /\ Contains(hist[Len(hist)].log, "task_finished")

C12_Step ==
  \A taskId \in TaskIds :
    MarkChanged(taskId) =>
      IF HasTask(tasks, taskId)
      THEN /\ Len(tasks') = Len(tasks)
           /\ \A i \in 1..Len(tasks) :
                /\ tasks'[i].taskId = tasks[i].taskId
                /\ tasks'[i].subtreeSha = tasks[i].subtreeSha
                /\ IF tasks[i].taskId \in Affected(tasks, taskId)
                   THEN /\ tasks'[i].generation = tasks[i].generation + 1
                        /\ taskVersion(tasks'[i]) # taskVersion(tasks[i])
                   ELSE /\ tasks'[i].generation = tasks[i].generation
                        /\ taskVersion(tasks'[i]) = taskVersion(tasks[i])
      ELSE tasks' = tasks /\ hist' = hist /\ status' = status /\ deferred' = deferred

\* C12: markChanged(t) on an existing task raises the generation of t and of
\* every transitive ancestor by exactly 1 and leaves generation and version
\* of every other task unchanged; on an id that is not in the graph it
\* changes nothing, emits nothing and leaves the tree status unchanged.
C12_MarkChangedBumpsAncestorsOnce == [][C12_Step]_vars

\* markChanged on a task whose ancestor is reachable along two paths.
C12_Witness ==
  /\ ChildEdges(tasks) = {<<1, 3>>, <<1, 2>>, <<2, 3>>}
  /\ \A i \in 1..Len(tasks) : tasks[i].generation = 1

C13_Step ==
  \A taskId \in TaskIds :
    (MarkChanged(taskId) /\ HasTask(tasks, taskId)) =>
      /\ \A i \in 1..Len(tasks) :
           LET execution == tasks[i].execution
           IN IF tasks[i].taskId \in Affected(tasks, taskId)
              THEN /\ ~tasks'[i].execution.present
                   /\ execution.present =>
                        /\ hist'[execution.id].log =
                             Append(hist[execution.id].log, "task_reset")
                        /\ hist'[execution.id].aborted
              ELSE /\ tasks'[i].execution = execution
                   /\ execution.present => hist'[execution.id] = hist[execution.id]
      /\ Len(hist') = Len(hist)
      /\ \A e \in 1..Len(hist) : ~Attached(e) => hist'[e] = hist[e]
      /\ (\A i \in 1..Len(tasks) : isSuccessfulCurrentTask(tasks[i])) =>
           /\ runnableTasks(tasks') = <<taskId>>
           /\ {tasks'[i].taskId : i \in {j \in 1..Len(tasks) : ~tasks'[j].execution.present}}
                = Affected(tasks, taskId)
           /\ \A i \in 1..Len(tasks) :
                tasks[i].taskId \notin Affected(tasks, taskId) =>
                  isSuccessfulCurrentTask(tasks'[i])

\* C13: markChanged(t) clears the execution, running or finished, of t and of
\* every transitive ancestor with one task_reset for each that had one, and
\* keeps execution and outcome of every other task; in a tree whose tasks had
\* all succeeded, afterwards exactly t and its ancestors lack an execution,
\* t alone is runnable and the descendants keep their current success.
C13_MarkChangedResetsAncestors == [][C13_Step]_vars

\* A task started again after markChanged reset its finished execution,
\* while its child keeps the earlier success and its parent waits.
C13_Witness ==
  \E i \in 1..Len(tasks) :
    /\ tasks[i].execution.present /\ tasks[i].generation > 0
    /\ \E e \in 1..Len(hist) :
         hist[e].task = tasks[i].taskId /\ hist[e].log = StartedFinishedReset
    /\ \E j \in 1..Len(tasks[i].children) :
         isSuccessfulCurrentTask(GetTask(tasks, tasks[i].children[j]))
    /\ \E j \in 1..Len(tasks[i].parents) :
         ~GetTask(tasks, tasks[i].parents[j]).execution.present

\* The subtree of x in the edge relation E: the edges reachable from x.
Subtree(E, x) == {e \in E : e[1] \in {x} \cup Descendants(E, x)}

C14_Step ==
  \A m \in Adjacencies :
    (nCalls' # nCalls /\ accepted' = [ids |-> IdsOf(m), edges |-> EdgesOf(m)]
       /\ SetTasksAccepted(m)) =>
      /\ \A i \in 1..Len(tasks) :
           LET task == tasks[i]
               execution == task.execution
               kept == /\ task.taskId \in IdsOf(m)
                       /\ Subtree(EdgesOf(m), task.taskId)
                            = Subtree(ChildEdges(tasks), task.taskId)
           IN IF kept
              THEN /\ GetTask(tasks', task.taskId).execution = execution
                   /\ GetTask(tasks', task.taskId).subtreeSha = task.subtreeSha
                   /\ execution.present => hist'[execution.id] = hist[execution.id]
              ELSE /\ HasTask(tasks', task.taskId) =>
                        ~GetTask(tasks', task.taskId).execution.present
                   /\ execution.present =>
                        /\ hist'[execution.id].log =
                             Append(hist[execution.id].log, "task_reset")
                        /\ hist'[execution.id].aborted
      /\ Len(hist') = Len(hist)
      /\ (IdsOf(m) = accepted.ids /\ EdgesOf(m) = accepted.edges) =>
           (tasks' = tasks /\ hist' = hist)

\* C14: an accepted setTasks(A) clears the execution of exactly the tasks
\* that are removed or whose subtree (the edges reachable from the task)
\* differs from before, with one task_reset for each cleared execution, and
\* keeps execution and outcome of every task whose subtree is unchanged;
\* setTasks(A) given the adjacency that is already stored resets nothing.
C14_SetTasksResetsChangedSubtrees == [][C14_Step]_vars

\* dep 3 pruned from 1 -> {2, 3} after all three had succeeded: the
\* executions of 3 and 1 were reset, 2 keeps its success, 1 alone is runnable.
C14_Witness ==
  /\ accepted.edges = {<<1, 2>>}
  /\ Len(hist) = 3
  /\ \A e \in 1..Len(hist) :
       hist[e].log = IF hist[e].task = 2 THEN StartedFinished ELSE StartedFinishedReset
  /\ isSuccessfulCurrentTask(GetTask(tasks, 2))
  /\ runnableTasks(tasks) = <<1>>

\* Every task has outcome success, was started exactly once, and the tree
\* status is ok.
AllSucceededOnce ==
  /\ status = "ok"
  /\ pc = "idle"
  /\ Len(hist) = Len(tasks)
  /\ \A i \in 1..Len(tasks) :
       /\ isSuccessfulCurrentTask(tasks[i])
       /\ hist[tasks[i].execution.id].log = StartedFinished

\* C15: for jobs >= 1, once run() has started a task, if every callback
\* calls on_complete(true) and the tasks are not set, changed or reset again,
\* then eventually every task has outcome success, each was started exactly
\* once, the tree status is ok, and this stays so.
C15_EventuallyAllSucceed == (hist # <<>>) ~> [](AllSucceededOnce)

\* A chain of three tasks run to the end one at a time.
C15_Witness ==
  /\ AllSucceededOnce
  /\ accepted.edges = {<<3, 2>>, <<2, 1>>}
  /\ ~jobs.infinite /\ jobs.n = 1
  /\ deferred = 0

Failed(ts) ==
  {ts[i].taskId : i \in {j \in 1..Len(ts) :
                           ts[j].execution.present /\ ts[j].execution.success = "false"}}

\* The tasks that depend on a failed task.
AboveFailed(ts) ==
  {a \in TaskIds : Descendants(ChildEdges(ts), a) \cap Failed(ts) # {}}

\* No pass is on the stack, no run() is scheduled, nothing is runnable or in
\* flight.
Settled ==
  /\ pc = "idle"
  /\ deferred = 0
  /\ runnableTasks(tasks) = <<>>
  /\ tasksBeingRun(tasks) = <<>>

C16_Step ==
  /\ \A i \in 1..Len(tasks) :
       tasks[i].taskId \in AboveFailed(tasks) => ~tasks[i].execution.present
  /\ (Settled /\ Failed(tasks) # {}) =>
       /\ status = "fail"
       /\ \A i \in 1..Len(tasks) :
            tasks[i].taskId \in AboveFailed(tasks) =>
              taskStatus(tasks, status, tasks[i].taskId) = "n/a"
       /\ \A i \in 1..Len(tasks) :
            \/ tasks[i].taskId \in AboveFailed(tasks)
            \/ tasks[i].execution.present /\ tasks[i].execution.success # "undefined"
  /\ Len(hist') > Len(hist) =>
       LET task == GetTask(tasks, hist'[Len(hist')].task)
       IN \A j \in 1..Len(task.children) :
            GetTask(tasks, task.children[j]).execution.success = "true"
  /\ \A i \in 1..Len(tasks) :
       (tasks[i].taskId \in AboveFailed(tasks) /\ HasTask(tasks', tasks[i].taskId)
          /\ GetTask(tasks', tasks[i].taskId).execution.present)
         => \E e \in 1..Len(hist) :
              /\ hist[e].task \in Failed(tasks)
              /\ hist'[e].log = Append(hist[e].log, "task_reset")
  /\ \A c \in callbacks :
       (OnComplete(c, FALSE) /\ tasks' # tasks) =>
         /\ \A i \in 1..Len(tasks) :
              tasks[i].taskId # c.task => tasks'[i] = tasks[i]
         /\ \A k \in 1..Len(runnableTasks(tasks)) :
              Contains(runnableTasks(tasks'), runnableTasks(tasks)[k])

DerivedStatus ==
  IF tasksBeingRun(tasks) # <<>> THEN "running"
  ELSE IF runnableTasks(tasks) # <<>> THEN "pending"
  ELSE IF Failed(tasks) # {} THEN "fail"
  ELSE "ok"

\* C17: whenever control is back with the caller after setTasks,
\* markChanged, resetAllTasks, run or an on_complete call, status() is the
\* derived tree status.
C17_Original == pc = "idle" => status = DerivedStatus

\* C17, amended: when control is back with the caller status() is the
\* derived tree status, unless an on_complete call has taken effect and the
\* run() pass it scheduled has not run yet: until then, or until another
\* operation recomputes it, status() stays running.
C17_StatusDerivedUnlessRunScheduled ==
  pc = "idle" =>
    \/ status = DerivedStatus
    \/ deferred > 0 /\ status = "running"

\* The last task has reported success and the scheduled run() has not run
\* yet: status() is still running although nothing is in flight.
C17_Witness ==
  /\ pc = "idle"
  /\ deferred > 0
  /\ status = "running"
  /\ DerivedStatus = "ok"
  /\ tasks # <<>>

\* C18: taskStatus(t) is running iff t has an execution without outcome, ok
\* iff the outcome is success, fail iff it is failure; for a task without
\* execution it is n/a when the tree status is ok or fail and pending
\* otherwise.
C18_TaskStatusDerivation ==
  \A i \in 1..Len(tasks) :
    LET execution == tasks[i].execution
        result == taskStatus(tasks, status, tasks[i].taskId)
    IN /\ result = "running" <=> (execution.present /\ execution.success = "undefined")
       /\ result = "ok" <=> (execution.present /\ execution.success = "true")
       /\ result = "fail" <=> (execution.present /\ execution.success = "false")
       /\ result = "n/a" <=> (~execution.present /\ status \in {"ok", "fail"})
       /\ result = "pending" <=> (~execution.present /\ status \notin {"ok", "fail"})

\* Root 1 was running above its finished dependency 2 when setTasks replaced
\* the dependency by 3: 1 is pending right after the call.
C18_Witness ==
  /\ pc = "idle"
  /\ accepted.edges = {<<1, 3>>}
  /\ Len(hist) = 2
  /\ \E e \in 1..2 : hist[e].task = 2 /\ hist[e].log = StartedFinishedReset
  /\ \E e \in 1..2 : hist[e].task = 1 /\ hist[e].log = StartedReset
  /\ taskStatus(tasks, status, 1) = "pending"
  /\ taskStatus(tasks, status, 3) = "pending"

\* The number of task_reset events of a log.
Resets(log) == Cardinality({k \in 1..Len(log) : log[k] = "task_reset"})

\* The execution object e is the execution of some task after the step.
AttachedNext(e) ==
  \E i \in 1..Len(tasks') : tasks'[i].execution.present /\ tasks'[i].execution.id = e

C19_Step ==
  /\ \A e \in 1..Len(hist) :
       /\ hist[e].aborted <=> ~Attached(e)
       /\ Resets(hist[e].log) = IF hist[e].aborted THEN 1 ELSE 0
       /\ IF Attached(e) /\ ~AttachedNext(e)
          THEN /\ hist'[e].aborted
               /\ hist'[e].log = Append(hist[e].log, "task_reset")
          ELSE /\ hist'[e].aborted = hist[e].aborted
               /\ Resets(hist'[e].log) = Resets(hist[e].log)
  /\ pc = "idle" => resetAllTasksBody(resetAllTasksBody(Tree)) = resetAllTasksBody(Tree)
  /\ ResetAllTasks =>
       /\ \A i \in 1..Len(tasks') : ~tasks'[i].execution.present
       /\ resetAllTasksBody([tasks |-> tasks', status |-> status', hist |-> hist',
                             deferred |-> deferred'])
            = [tasks |-> tasks', status |-> status', hist |-> hist',
               deferred |-> deferred']

\* C19: an operation that clears an execution fires that execution's cancel
\* token and emits exactly one task_reset for it, no other execution is
\* aborted or reported as reset, and resetAllTasks() called right after
\* resetAllTasks() emits no event, fires no token and changes no state.
C19_CancelledExactlyOnce == [][C19_Step]_vars

\* resetAllTasks cancelled a running execution and cleared a finished one of
\* two independent tasks.
C19_Witness ==
  /\ accepted = [ids |-> {1, 2, 3}, edges |-> {}]
  /\ nCalls = 2
  /\ \A i \in 1..Len(tasks) : ~tasks[i].execution.present
  /\ \E e \in 1..Len(hist) : hist[e].log = StartedReset /\ hist[e].aborted
  /\ \E e \in 1..Len(hist) : hist[e].log = StartedFinishedReset /\ hist[e].aborted

\* The post-order of the graph (ids, E) that visits roots and children in
\* ascending id order; done is the sequence built so far.
RECURSIVE PostOrder(_, _, _)
RECURSIVE PostOrderEach(_, _, _)
PostOrder(E, x, done) ==
  IF Contains(done, x) THEN done
  ELSE Append(PostOrderEach(E, SetToSortedSeq({e[2] : e \in {d \in E : d[1] = x}}), done), x)

PostOrderEach(E, xs, done) ==
  IF xs = <<>> THEN done ELSE PostOrderEach(E, Tail(xs), PostOrder(E, Head(xs), done))

PostOrderOf(ids, E) ==
  PostOrderEach(E, SetToSortedSeq({x \in ids : \A e \in E : e[2] # x}), <<>>)

\* C20: topsort() returns every task exactly once, every child before its
\* parent, and is the post-order that visits roots and children in ascending
\* id order, so it depends on the graph alone.
TopsortCorrect(ts, rs, ids, E) ==
  LET order == topsort(ts, rs)
  IN /\ Len(order) = Cardinality(ids)
     /\ Range(order) = ids
     /\ \A e \in E :
          \E a, b \in 1..Len(order) : a < b /\ order[a] = e[2] /\ order[b] = e[1]
     /\ order = PostOrderOf(ids, E)

\* topsort() of a fresh tree given any acyclic adjacency over TaskIds.
TopsortOfEveryDag ==
  \A m \in AllAdjacencies :
    ~HasCycle(EdgesOf(m)) =>
      LET built == setTasksBody([tasks |-> <<>>, status |-> "ok", hist |-> <<>>,
                                 deferred |-> 0], m).tasks
      IN TopsortCorrect(built, figureOutRoots(built), IdsOf(m), EdgesOf(m))

C20_TopsortChildrenFirst ==
  /\ TopsortOfEveryDag
  /\ {tasks[i].taskId : i \in 1..Len(tasks)} = accepted.ids
  /\ TopsortCorrect(tasks, roots, accepted.ids, accepted.edges)

\* Two roots above a shared child: the child first and once, then the roots
\* in ascending order.
C20_Witness ==
  /\ accepted.edges = {<<1, 3>>, <<2, 3>>}
  /\ topsort(tasks, roots) = <<3, 1, 2>>

\* cycle is a directed cycle of the adjacency m: no id twice, an edge from
\* each element to the next and from the last to the first.
IsCycleOf(m, cycle) ==
  /\ cycle # <<>>
  /\ Cardinality(Range(cycle)) = Len(cycle)
  /\ \A k \in 1..Len(cycle) :
       <<cycle[k], cycle[IF k = Len(cycle) THEN 1 ELSE k + 1]>> \in EdgesOf(m)

\* n0 -> n1, n1 -> n2, n2 -> n3, n3 -> n1 with n0..n3 = 4, 1, 2, 3.
LeadInExample == <<Entry(4, <<1>>), Entry(1, <<2>>), Entry(2, <<3>>), Entry(3, <<1>>)>>

ReportedCyclesAreCycles ==
  /\ \A m \in AllAdjacencies \cup Adjacencies \cup {LeadInExample} :
       findDependencyCycle(m) # <<>> => IsCycleOf(m, findDependencyCycle(m))
  /\ findDependencyCycle(LeadInExample) = <<1, 2, 3>>

C21_Step ==
  /\ ReportedCyclesAreCycles
  /\ \A m \in CyclicInputs :
       (last'.result = "CycleError" /\ SetTasksThrows(m)) =>
         IsCycleOf(m, findDependencyCycle(m))

\* C21: a cycle reported by findDependencyCycle is non-empty, has no id
\* twice, has an edge from each element to the next and from the last to the
\* first, and leaves out the nodes that only lead into it.
C21_ReportedCycleIsACycle == [][C21_Step]_vars

\* setTasks threw on its first call, and the cycle found behind the lead-in
\* node 1 of 1 -> 2, 2 -> 3, 3 -> 2 is 2, 3.
C21_Witness ==
  /\ last.result = "CycleError"
  /\ nCalls = 1
  /\ findDependencyCycle(<<Entry(1, <<2>>), Entry(2, <<3>>), Entry(3, <<2>>)>>) = <<2, 3>>

(***************************************************************************)
(* Properties of the Workspace and its Projects.                           *)
(***************************************************************************)
\* Updates pending (an armed timer) or in flight (a suspended pass).
Updates == Cardinality(timers) + Len(passes)

\* The step is a _scheduleUpdate for the project at index j.
ScheduleUpdateStep(j, needsRereadConfigFiles) ==
  /\ nEvents' # nEvents
  /\ disk' = disk
  /\ \/ FileEvent(j, needsRereadConfigFiles)
     \/ ~needsRereadConfigFiles /\ ScheduleUpdate(j)

C22_Step ==
  /\ Updates <= 1
  /\ Updates' <= 1
  /\ Updates = 1 => updateData.present
  /\ \A j \in ProjectSlots, needsRereadConfigFiles \in BOOLEAN :
       (Updates = 1 /\ ScheduleUpdateStep(j, needsRereadConfigFiles)) =>
         /\ timers' = timers
         /\ passes' = passes
         /\ updateData' =
              [updateData EXCEPT
                 !.changedProjects = @ \cup {projects[j].configPath},
                 !.needsRereadConfigFiles = @ \/ needsRereadConfigFiles]

\* C22: at most one update is pending or in flight: a scheduleUpdate made
\* while a timer is armed or a pass is suspended merges into the record
\* there is (union of the changed projects, OR of the re-read flags) and
\* arms no timer, and no two passes are in flight together.
C22_OneUpdateAtATime == [][C22_Step]_vars

\* Two changes merged into the record while a pass is suspended.
C22_Witness ==
  /\ passes # <<>>
  /\ timers = {}
  /\ updateData.needsRereadConfigFiles
  /\ updateData.changedProjects # {}

Pending == updateData.changedProjects # {} \/ updateData.needsRereadConfigFiles

C23_Step ==
  \* the pass that pulls a project out of the record marks its task changed
  /\ \A p \in TaskIds :
       (p \in updateData.changedProjects /\ p \notin updateData'.changedProjects) =>
         /\ Len(passes') > Len(passes) \/ ~updateData'.present
         /\ HasTask(tasks, p) =>
              /\ HasTask(tasks', p)
              /\ GetTask(tasks', p).generation > GetTask(tasks, p).generation
              /\ ~GetTask(tasks', p).execution.present
  \* a pass that ends with changes in the record keeps them and arms a timer;
  \* otherwise the record goes (and the tree runs)
  /\ Len(passes') < Len(passes) =>
       IF Pending
       THEN /\ timers' # {}
            /\ updateData'.changedProjects = updateData.changedProjects
            /\ updateData'.needsRereadConfigFiles = updateData.needsRereadConfigFiles
            /\ pc' = "idle"
       ELSE ~updateData'.present
  \* run() is entered by a pass only when it leaves no record
  /\ (pc = "idle" /\ pc' = "dispatch" /\ deferred' = deferred) => ~updateData'.present

\* C23: no change notification is lost while the workspace runs: a project
\* in the pending record is eventually pulled by a pass that calls
\* markChanged for it, the record is eventually gone, which is when the
\* pass calls run(); changes that arrive during a pass stay in the record
\* with a timer armed for a further pass, and run() is called by a pass
\* only when the record is empty at its end.
C23_NoChangeLost ==
  /\ \A p \in TaskIds :
       (p \in updateData.changedProjects) ~> (p \notin updateData.changedProjects)
  /\ updateData.present ~> ~updateData.present
  /\ [][C23_Step]_vars

\* A pass in flight with a change that arrived after it began, in a tree
\* an earlier notification has marked.
C23_Witness ==
  /\ passes # <<>>
  /\ updateData.changedProjects # {}
  /\ \E i \in 1..Len(tasks) : tasks[i].generation > 0

\* The step is the end of a readConfigTree: only ReadConfiguration takes a
\* pass out of "read".
ReadStep ==
  \E i \in 1..Len(passes) :
    /\ passes[i].pc = "read"
    /\ i > Len(passes') \/ passes'[i].pc # "read"

C24_Step ==
  /\ (ReadStep /\ lastRead' = "cycle") =>
       /\ workspaceError' # <<>>
       /\ workspaceStatus' = "error"
       /\ tasks' = <<>>
       /\ \A e \in 1..Len(hist') : hist'[e].aborted
       /\ pc' = "idle"
  /\ (workspaceError # <<>> /\ workspaceError' # <<>>) => hist' = hist
  /\ workspaceError # <<>> => (tasks = <<>> /\ pc = "idle")
  /\ workspaceStatus = "error" <=> lastRead = "cycle"
  /\ workspaceStatus' = "error" <=> lastRead' = "cycle"
  /\ lastRead # "cycle" => workspaceStatus = status

\* C24: a configuration read that finds a cycle sets the workspace status
\* to error with a message, clears the graph, cancelling every execution,
\* and no task is dispatched while the error persists; workspaceStatus()
\* is error exactly when the last read had a cycle and is the tree status
\* otherwise.
C24_CycleIsWorkspaceError == [][C24_Step]_vars

\* A cycle found by a re-read after a task was started.
C24_Witness ==
  /\ workspaceStatus = "error"
  /\ hist # <<>>
  /\ \A e \in 1..Len(hist) : hist[e].aborted

AllSucceeded ==
  /\ tasks # <<>>
  /\ \A i \in 1..Len(tasks) :
       tasks[i].execution.present /\ tasks[i].execution.success = "true"

C25_Step ==
  \* a read without a cycle clears the error, emits workspace_status_changed
  \* and sets the graph from the configuration read
  /\ (ReadStep /\ workspaceError # <<>> /\ lastRead' = "acyclic") =>
       /\ workspaceError' = <<>>
       /\ workspaceStatus' # "error"
       /\ errorEvents' = errorEvents + 1
       /\ {tasks'[i].taskId : i \in 1..Len(tasks')} = accepted'.ids
       /\ ChildEdges(tasks') = accepted'.edges
       /\ accepted'.ids # {}
  \* the pass that ends with nothing pending runs the graph
  /\ (Len(passes') < Len(passes) /\ ~Pending /\ workspaceError' = <<>>
        /\ runnableTasks(tasks') # <<>>
        /\ (jobs.infinite \/ jobs.n > Len(tasksBeingRun(tasks')))) =>
       pc' = "dispatch"
  \* once every task has succeeded and the scheduled run() has run, the
  \* workspace is ok
  /\ (workspaceError = <<>> /\ AllSucceeded /\ Turn) => workspaceStatus = "ok"

\* C25: a cycle error is recoverable: a later read without a cycle clears
\* the error and emits workspace_status_changed, the graph is set from the
\* new configuration and run, and when all tasks have succeeded the
\* workspace status is ok.
C25_CycleErrorRecoverable == [][C25_Step]_vars

\* The workspace is ok after a cycle error: the error was set and cleared,
\* and every task of the new graph has succeeded.
C25_Witness ==
  /\ errorEvents = 2
  /\ workspaceStatus = "ok"
  /\ AllSucceeded
  /\ Turn

\* The live children forked for the project with the given config path.
ChildrenOf(ps, configPath) == {e \in ps : hist[e].task = configPath}

C26_Step ==
  \* at most one live child per project, and it is the one the project holds
  /\ \A e \in procs :
       /\ ChildrenOf(procs, hist[e].task) = {e}
       /\ HasProject(projects, hist[e].task)
       /\ projects[ProjectIndex(projects, hist[e].task)].subprocess = e
  \* a dispatch leaves the project with the new child only
  /\ (pc = "callback" /\ pc' # "callback") =>
       ChildrenOf(procs', Head(runQueue)) \subseteq {Len(hist)}
  \* cancellation leaves the project without a child
  /\ \A e \in 1..Len(hist) :
       (~hist[e].aborted /\ hist'[e].aborted) =>
         /\ ChildrenOf(procs', hist[e].task) = {}
         /\ \A j \in 1..Len(projects') :
              projects'[j].configPath = hist[e].task => projects'[j].subprocess = 0
  \* disposal, by stop() or by a re-read, leaves the project without a child
  /\ (stopPc.pc = "dispose" /\ stopPc' # stopPc) =>
       /\ ChildrenOf(procs', stopPc.project) = {}
       /\ \A j \in 1..Len(projects') :
            projects'[j].configPath = stopPc.project => projects'[j].subprocess = 0
  /\ \A j \in 1..Len(projects) :
       ~HasProject(projects', projects[j].configPath) =>
         ChildrenOf(procs', projects[j].configPath) = {}

\* C26: a Project has at most one live child process: a dispatch leaves no
\* child but the one it forks, and cancellation or disposal leaves the
\* project without a child.
C26_OneChildPerProject == [][C26_Step]_vars

\* A project with a child, forked after the child of an earlier execution
\* of its task was cancelled.
C26_Witness ==
  \E j \in 1..Len(projects) :
    /\ projects[j].subprocess # 0
    /\ projects[j].subprocess \in procs
    /\ \E e \in 1..Len(hist) :
         /\ hist[e].aborted
         /\ hist[e].task = projects[j].configPath
         /\ "task_finished" \notin Range(hist[e].log)

\* The step is the run callback for a project that holds a configuration
\* error.
DispatchWithError(j) ==
  /\ pc = "callback"
  /\ pc' # "callback"
  /\ j \in 1..Len(projects)
  /\ projects[j].configPath = Head(runQueue)
  /\ projects[j].configurationError

C27_Step ==
  /\ \A j \in ProjectSlots :
       DispatchWithError(j) =>
         /\ procs' = procs
         /\ projects'[j].subprocess = 0
         /\ TaskState(tasks', projects[j].configPath) = "fail"
         /\ hist'[Len(hist)].log = StartedFinished
         /\ output(projects'[j]) = <<FailedToLoad>>
         /\ \A taskId \in TaskIds \ {projects[j].configPath} :
              TaskState(tasks', taskId) = TaskState(tasks, taskId)
  \* with nothing left to run the workspace is fail, and the tasks above
  \* the failed one are not failed but n/a
  /\ \A j \in 1..Len(projects) :
       (/\ Turn
        /\ workspaceError = <<>>
        /\ projects[j].configurationError
        /\ TaskState(tasks, projects[j].configPath) = "fail"
        /\ runnableTasks(tasks) = <<>>
        /\ tasksBeingRun(tasks) = <<>>) =>
         /\ workspaceStatus = "fail"
         /\ \A i \in 1..Len(tasks) :
              Contains(tasks[i].children, projects[j].configPath) =>
                /\ ~tasks[i].execution.present
                /\ taskStatus(tasks, status, tasks[i].taskId) = "n/a"

\* C27: a dispatch for a Project that holds a configuration error calls
\* onComplete(false) at once and forks nothing: the task is fail, the
\* output of the project is the error text, the workspace settles to fail
\* and no other task is failed by it.
C27_ConfigurationErrorFailsTask == [][C27_Step]_vars

\* A dependency whose configuration does not load has failed; the project
\* that depends on it was not started and the workspace is fail.
C27_Witness ==
  /\ Turn
  /\ workspaceStatus = "fail"
  /\ Len(tasks) = 2
  /\ \E j \in 1..Len(projects) :
       /\ projects[j].configurationError
       /\ TaskState(tasks, projects[j].configPath) = "fail"
       /\ \E i \in 1..Len(tasks) :
            /\ Contains(tasks[i].children, projects[j].configPath)
            /\ taskStatus(tasks, status, tasks[i].taskId) = "n/a"

\* The child of the project at index j sends the done sentinel while the
\* task of the project is running.
DoneWhileRunning(j) ==
  /\ procs' = procs
  /\ deferred' # deferred
  /\ j \in 1..Len(projects)
  /\ TaskState(tasks, projects[j].configPath) = "running"
  /\ ChildDone(j)

\* The child of the project at index j closes after the task became ok.
CloseAfterDone(j, code) ==
  /\ procs' # procs
  /\ j \in 1..Len(projects)
  /\ TaskState(tasks, projects[j].configPath) = "ok"
  /\ ChildClose(j, code)

C28_Step ==
  /\ \A j \in ProjectSlots :
       DoneWhileRunning(j) =>
         /\ TaskState(tasks', projects[j].configPath) = "ok"
         /\ projects'[j].subprocess = projects[j].subprocess
         /\ projects[j].subprocess \in procs'
  /\ \A j \in ProjectSlots, code \in ExitCodes :
       CloseAfterDone(j, code) =>
         /\ TaskState(tasks', projects[j].configPath) = "ok"
         /\ tasks' = tasks
         /\ projects[j].subprocess \notin procs'
         /\ projects'[j].output = Append(projects[j].output, ExitedWithCode(code))

\* C28: the done sentinel of a child makes the running task ok and leaves
\* the process running; when the process later closes with code N the task
\* stays ok and 'process exited with code=N' is appended to the output
\* buffer of the project.
C28_DoneThenExitCode == [][C28_Step]_vars

\* A service that reported done and then exited with code 7.
C28_Witness ==
  \E j \in 1..Len(projects) :
    /\ TaskState(tasks, projects[j].configPath) = "ok"
    /\ projects[j].subprocess = 0
    /\ output(projects[j]) = <<ExitedWithCode(7)>>

\* C29: after stop() has resolved no update timer is armed, no task has an
\* execution, every execution was cancelled, and no project has a live
\* child process or an active watcher.
C29_Original ==
  stopPc.pc = "resolved" =>
    /\ timers = {}
    /\ \A i \in 1..Len(tasks) : ~tasks[i].execution.present
    /\ \A e \in 1..Len(hist) : hist[e].aborted
    /\ procs = {}
    /\ \A j \in 1..Len(projects) : projects[j].subprocess = 0 /\ ~projects[j].fsWatch

\* C30: while the workspace is not in the cycle-error state, every Project
\* of the workspace has a task with its id in the graph, also while a
\* re-read waits at an await.
C30_Original ==
  workspaceError = <<>> =>
    \A j \in 1..Len(projects) : HasTask(tasks, projects[j].configPath)

\* The step ends the run callback for the task of the project at index j.
DispatchHandled(j) ==
  /\ pc = "callback"
  /\ pc' # "callback"
  /\ j \in 1..Len(projects)
  /\ projects[j].configPath = Head(runQueue)

\* The step emits the event for an execution of the task of the project at
\* index j, which the workspace still holds after the step.
Emitted(j, type) ==
  /\ hist' # hist
  /\ j \in 1..Len(projects)
  /\ HasProject(projects', projects[j].configPath)
  /\ \E e \in 1..Len(hist) :
       /\ hist[e].task = projects[j].configPath
       /\ Contains(SubSeq(hist'[e].log, Len(hist[e].log) + 1, Len(hist'[e].log)), type)

After(j) == projects'[ProjectIndex(projects', projects[j].configPath)]

\* C31 as stated: the output buffer of a Project is reset when a dispatch
\* request is handled (for a project without configuration error), and a
\* task_reset or task_finished of its task leaves the buffer as it was.
C31_Original ==
  [][\A j \in ProjectSlots :
       /\ (DispatchHandled(j) /\ ~projects[j].configurationError) =>
            projects'[j].output = <<>>
       /\ (Emitted(j, "task_reset") \/ Emitted(j, "task_finished")) =>
            After(j).output = projects[j].output]_vars

C31_Step ==
  \A j \in ProjectSlots :
    /\ Emitted(j, "task_reset") =>
         /\ After(j).notified = output([After(j) EXCEPT !.output = <<>>])
         /\ After(j).output =
              IF After(j).configurationError /\ ~projects[j].configurationError
              THEN <<FailedToLoad>> ELSE <<>>
    /\ DispatchHandled(j) => projects'[j].output = projects[j].output
    /\ (Emitted(j, "task_started") \/ Emitted(j, "task_finished")) =>
         \/ After(j).output = projects[j].output
         \/ /\ ChildError(j)
            /\ After(j).output = Append(projects[j].output, ErrorMessage)

\* C31, amended: the output buffer of a Project is emptied by the
\* task_reset of its task, the cancellation that comes before every re-run
\* (after it the buffer holds at most the error text of a configuration
\* that no longer loads); the handling of a dispatch request leaves the
\* buffer as it is, and so do task_started and task_finished (the error
\* listener of a child appends its message after it completed the task).
C31_OutputResetOnTaskReset == [][C31_Step]_vars

\* A child was forked for a project whose buffer still holds the text of a
\* configuration error that is gone: the dispatch did not empty the buffer.
C31_Witness ==
  \E j \in 1..Len(projects) :
    /\ projects[j].subprocess # 0
    /\ ~projects[j].configurationError
    /\ Contains(projects[j].output, FailedToLoad)

\* The texts a run of a project writes to its output buffer.
RunTexts ==
  {ChildText, ErrorMessage, TerminatedByKubik, ExitedWithCode(0), ExitedWithCode(7)}

NoRunText(out) == \A k \in 1..Len(out) : out[k] \notin RunTexts

C32_Step ==
  \A j \in ProjectSlots :
    \* build_status_changed of the cancellation
    /\ Emitted(j, "task_reset") => NoRunText(After(j).notified)
    \* nothing is written between the cancellation and the next dispatch
    /\ (/\ j \in 1..Len(projects)
        /\ HasTask(tasks, projects[j].configPath)
        /\ ~GetTask(tasks, projects[j].configPath).execution.present) =>
         NoRunText(output(projects[j]))
    \* build_status_changed of the transition to running
    /\ (/\ pc = "dispatch"
        /\ pc' = "callback"
        /\ j \in 1..Len(projects)
        /\ projects[j].configPath = Head(runQueue)) =>
         /\ NoRunText(output(projects[j]))
         /\ projects'[j] = projects[j]

\* C32: an observer of build_status_changed never sees output of the
\* previous run together with the new run: at the notification of the
\* cancellation, from then on while the task waits, and at the notification
\* of the transition to running, output() holds no text a run has written.
C32_NoOldOutputAtStatusChange == [][C32_Step]_vars

\* A project runs again: its task is running with a live child, after an
\* earlier execution of the task finished and was cancelled.
C32_Witness ==
  \E j \in 1..Len(projects) :
    /\ projects[j].subprocess # 0
    /\ TaskState(tasks, projects[j].configPath) = "running"
    /\ projects[j].notified = <<>>
    /\ \E e \in 1..Len(hist) :
         /\ hist[e].task = projects[j].configPath
         /\ hist[e].log = StartedFinishedReset

(***************************************************************************)
(* Further properties of the TaskTree.                                     *)
(***************************************************************************)
\* run() finds nothing to start: no runnable task, or no capacity left.
NothingToStart ==
  \/ Len(runnableTasks(tasks)) = 0
  \/ ~jobs.infinite /\ jobs.n - Len(tasksBeingRun(tasks)) <= 0

RunStepStartsNothing ==
  (pc = "idle" /\ nCalls' = nCalls /\ NothingToStart /\ (Run \/ RunDeferred)) =>
    /\ tasks' = tasks
    /\ hist' = hist
    /\ callbacks' = callbacks
    /\ pc' = "idle"
    /\ runQueue' = <<>>

\* The task is fail before the step and not after it.
LeavesFail(taskId) ==
  /\ tasks' # tasks
  /\ HasTask(tasks, taskId)
  /\ taskStatus(tasks, status, taskId) = "fail"
  /\ ~HasTask(tasks', taskId) \/ taskStatus(tasks', status', taskId) # "fail"

VersionChanged(taskId) ==
  \/ ~HasTask(tasks', taskId)
  \/ taskVersion(GetTask(tasks', taskId)) # taskVersion(GetTask(tasks, taskId))

\* C33 as stated: a run() that finds nothing to start starts no task and
\* emits no task event, and a failed task stays fail until markChanged or
\* setTasks changes its version.
C33_Original ==
  [][/\ RunStepStartsNothing
     /\ \A taskId \in TaskIds : LeavesFail(taskId) => VersionChanged(taskId)]_vars

C33_Step ==
  /\ RunStepStartsNothing
  /\ \A taskId \in TaskIds :
       LeavesFail(taskId) =>
         /\ nCalls' # nCalls
         /\ LET e == GetTask(tasks, taskId).execution.id
            IN hist'[e].log = Append(hist[e].log, "task_reset")
         /\ VersionChanged(taskId) \/ ResetAllTasks
         /\ HasTask(tasks', taskId) => ~GetTask(tasks', taskId).execution.present

\* C33, amended: a run() that finds nothing to start (no runnable task, or
\* no capacity) starts no task and emits no task event; a failed task is
\* not retried by run() and stays fail until its execution is reset: by a
\* markChanged or setTasks that changes its version, by a setTasks that
\* drops it, or by resetAllTasks, which leaves its version as it is.
C33_FailedTaskNotRetried == [][C33_Step]_vars

\* A run() found nothing to start and settled the tree to fail: a task has
\* failed, its parent is blocked behind it, and no call but the first
\* setTasks was made.
C33_Witness ==
  /\ nCalls = 1
  /\ pc = "idle"
  /\ deferred = 0
  /\ status = "fail"
  /\ \E i, k \in 1..Len(tasks) :
       /\ taskStatus(tasks, status, tasks[i].taskId) = "fail"
       /\ Contains(tasks[k].children, tasks[i].taskId)
       /\ taskStatus(tasks, status, tasks[k].taskId) = "n/a"

C34_Step ==
  \* run() on a graph without tasks
  /\ tasks = <<>> => status = "ok"
  /\ (tasks = <<>> /\ pc = "idle" /\ nCalls' = nCalls /\ (Run \/ RunDeferred)) =>
       /\ UNCHANGED <<tasks, roots, status, hist, pc, runQueue, callbacks>>
       /\ status' = "ok"
  \* clear()
  /\ (nCalls' # nCalls /\ Clear) =>
       /\ tasks' = <<>>
       /\ roots' = <<>>
       /\ status' = "ok"
       /\ Len(hist') = Len(hist)
       /\ \A e \in 1..Len(hist) :
            /\ hist'[e].log = IF Attached(e) THEN Append(hist[e].log, "task_reset")
                              ELSE hist[e].log
            /\ hist'[e].aborted = (hist[e].aborted \/ Attached(e))
       /\ UNCHANGED <<pc, runQueue, deferred>>
       /\ SetTasksAccepted(<<>>)
  /\ (nCalls' # nCalls /\ SetTasksAccepted(<<>>)) => Clear

\* C34: on a graph without tasks run() does nothing and the tree status is
\* ok; clear() is setTasks with an empty adjacency: it removes every task,
\* cancels every existing execution with exactly one task_reset each,
\* starts nothing and leaves the tree status ok.
C34_ClearIsEmptySetTasks == [][C34_Step]_vars

\* The graph was cleared while one task was running and another had
\* finished.
C34_Witness ==
  /\ tasks = <<>>
  /\ accepted.ids = {}
  /\ status = "ok"
  /\ \E e \in 1..Len(hist) : hist[e].log = StartedReset
  /\ \E e \in 1..Len(hist) : hist[e].log = StartedFinishedReset

(***************************************************************************)
(* Further properties of the Workspace and its Projects.                   *)
(***************************************************************************)
Finishes(log) == Len(SelectSeq(log, LAMBDA type : type = "task_finished"))

\* The child of the project at index j closes while its task is running.
CloseWithoutSentinel(j, code) ==
  /\ procs' # procs
  /\ j \in 1..Len(projects)
  /\ TaskState(tasks, projects[j].configPath) = "running"
  /\ ChildClose(j, code)

SpawnError(j) ==
  /\ procs' # procs
  /\ j \in 1..Len(projects)
  /\ ChildError(j)

\* The step reports the outcome of the child of the project at index j for
\* the execution the child was forked for.
Completes(j, outcome) ==
  LET e == projects[j].subprocess
      task == GetTask(tasks', projects[j].configPath)
  IN /\ TaskState(tasks', projects[j].configPath) = outcome
     /\ task.execution.id = e
     /\ hist'[e].log = Append(hist[e].log, "task_finished")
     /\ \A d \in 1..Len(hist) : d # e => hist'[d] = hist[d]
     /\ deferred' = deferred + 1
     /\ projects'[j].subprocess = 0
     /\ e \notin procs'

C35_Step ==
  /\ \A j \in ProjectSlots, code \in ExitCodes :
       CloseWithoutSentinel(j, code) => Completes(j, IF code = 0 THEN "ok" ELSE "fail")
  /\ \A j \in ProjectSlots : SpawnError(j) => Completes(j, "fail")
  \* each execution is completed at most once, while it is the execution
  \* of its task, by the run callback or by a handler of its own child
  /\ \A e \in 1..Len(hist') : Finishes(hist'[e].log) <= 1
  /\ \A e \in 1..Len(hist) :
       Finishes(hist'[e].log) > Finishes(hist[e].log) =>
         /\ ~hist[e].aborted
         /\ Attached(e)
         /\ \/ pc = "callback" /\ e = Len(hist)
            \/ \E j \in 1..Len(projects) :
                 /\ projects[j].subprocess = e
                 /\ projects[j].configPath = hist[e].task
  \* a child does not outlive the execution it was forked for, so that its
  \* handlers meet no later execution
  /\ \A j \in 1..Len(projects) :
       projects[j].subprocess # 0 =>
         /\ projects[j].subprocess \in procs
         /\ hist[projects[j].subprocess].task = projects[j].configPath
         /\ ~hist[projects[j].subprocess].aborted
         /\ Attached(projects[j].subprocess)

\* C35: a child that closes without having sent the sentinel completes its
\* task with success iff the exit code is 0, and a spawn error completes
\* it as failure; across the message, close and error handlers each
\* execution is completed at most once, and the handlers of a child killed
\* for a cancelled execution complete no later execution of the task.
C35_ChildOutcomeOncePerExecution == [][C35_Step]_vars

\* A task has failed by the spawn error of its second child; its first
\* execution was cancelled before the child reported anything.
C35_Witness ==
  \E j \in 1..Len(projects) :
    /\ TaskState(tasks, projects[j].configPath) = "fail"
    /\ Contains(projects[j].output, ErrorMessage)
    /\ \E e \in 1..Len(hist) :
         /\ hist[e].task = projects[j].configPath
         /\ hist[e].log = StartedReset

\* The paths reachable from S through the deps of the configurations that
\* load.
RECURSIVE ConfigClosure(_, _)
ConfigClosure(files, S) ==
  LET next == S \cup UNION {Range(readSingleConfig(files, configPath).deps) : configPath \in S}
  IN IF next = S THEN S ELSE ConfigClosure(files, next)

Loads(files, configPath) == \E k \in 1..Len(files) : files[k].configPath = configPath

\* results is a Map with an entry for exactly the paths reachable from the
\* roots: the configuration when the file loads, an error when it does not.
IsClosureRead(files, rootPaths, results) ==
  /\ {results[k].configPath : k \in 1..Len(results)} = ConfigClosure(files, Range(rootPaths))
  /\ Cardinality({results[k].configPath : k \in 1..Len(results)}) = Len(results)
  /\ \A k \in 1..Len(results) :
       /\ results[k].error <=> ~Loads(files, results[k].configPath)
       /\ results[k].error => results[k].deps = <<>>
       /\ \A d \in 1..Len(files) :
            files[d].configPath = results[k].configPath => results[k].deps = files[d].deps

\* Both versions of readConfigTree, on the disk as it is and every roots
\* sequence of up to two paths or any order of the three.
ReadsAreClosures ==
  \A rootPaths \in DepsOptions :
    /\ IsClosureRead(disk, rootPaths, readConfigTree(disk, rootPaths))
    /\ IsClosureRead(disk, rootPaths, readConfigTreeByLevels(disk, rootPaths))

C36_Step ==
  /\ ReadsAreClosures
  /\ ReadStep =>
       /\ {projects'[j].configPath : j \in 1..Len(projects')}
            = ConfigClosure(disk, Range(WorkspaceRoots))
       /\ \A j \in 1..Len(projects') :
            projects'[j].configurationError <=> ~Loads(disk, projects'[j].configPath)
       /\ lastRead' = "acyclic" =>
            {tasks'[i].taskId : i \in 1..Len(tasks')} = ConfigClosure(disk, Range(WorkspaceRoots))

\* C36: readConfigTree(roots) ends for every finite dependency relation,
\* one with cycles included, and returns an entry for exactly the paths
\* reachable from the roots through the deps of the configurations that
\* load; a path that does not load gets an entry with an error, and no
\* deps of it are followed.
C36_ReadConfigTreeIsTheClosure == [][C36_Step]_vars

\* Read from a disk where 1 and 2 depend on each other and 2 depends on a
\* path that does not load: three projects, one with an error.
C36_Witness ==
  /\ lastRead = "cycle"
  /\ Len(projects) = 3
  /\ \E j \in 1..Len(projects) : projects[j].configurationError
  /\ <<2, 1>> \in EdgesOf(projectTree(readConfigTree(disk, WorkspaceRoots)))

(***************************************************************************)
(* Further properties of the TaskTree, and of the Workspace on top of it.  *)
(***************************************************************************)
\* Every task that has an execution stands on children that succeeded.
BuiltOnSuccess(ts) ==
  \A i \in 1..Len(ts) :
    ts[i].execution.present =>
      \A j \in 1..Len(ts[i].children) :
        LET child == GetTask(ts, ts[i].children[j])
        IN child.execution.present /\ child.execution.success = "true"

\* The step takes the execution the task has away from it.
LosesExecution(taskId) ==
  /\ tasks' # tasks
  /\ HasTask(tasks, taskId)
  /\ GetTask(tasks, taskId).execution.present
  /\ \/ ~HasTask(tasks', taskId)
     \/ GetTask(tasks', taskId).execution.id # GetTask(tasks, taskId).execution.id

C37_Step ==
  /\ BuiltOnSuccess(tasks)
  /\ BuiltOnSuccess(tasks')
  /\ \A taskId \in TaskIds :
       LosesExecution(taskId) =>
         \A parent \in Ancestors(tasks, taskId) :
           /\ HasTask(tasks', parent) => ~GetTask(tasks', parent).execution.present
           /\ GetTask(tasks, parent).execution.present =>
                hist'[GetTask(tasks, parent).execution.id].aborted

\* C37: in every state a task has an execution (running, ok or fail) only
\* if each of its children has an execution with outcome success: an
\* operation that clears the execution of a task clears, in the same
\* operation, the executions of all its transitive parents.
C37_ExecutionOnlyAboveSuccess == [][C37_Step]_vars

\* One operation has reset a task that had succeeded and its parent, which
\* had been started on top of it.
C37_Witness ==
  \E e1, e2 \in 1..Len(hist) :
    /\ hist[e1].log = StartedFinishedReset
    /\ hist[e2].log = StartedReset
    /\ <<hist[e2].task, hist[e1].task>> \in ChildEdges(tasks)
    /\ ~GetTask(tasks, hist[e1].task).execution.present
    /\ ~GetTask(tasks, hist[e2].task).execution.present

\* C38: whenever the graph invokes the run callback for a task id, the
\* workspace holds a Project for that id, which handles the request: no
\* task is left running without a Project that was asked to build it, also
\* when a task completes while a re-read waits between setTasks and the
\* creation of the Projects of the new tasks.
C38_Original ==
  [][(pc = "callback" /\ pc' # "callback") => HasProject(projects, Head(runQueue))]_vars

\* C39: once stop() has been called no task is dispatched, no child
\* process is spawned and no update timer is armed, also when an update pass
\* that waited in the configuration read resumes after stop().
C39_Original ==
  [][stopPc.pc # "none" =>
       /\ Len(hist') = Len(hist)
       /\ procs' \subseteq procs
       /\ timers' \subseteq timers]_vars

(***************************************************************************)
(* Further properties of the tree status                                   *)
(***************************************************************************)
\* The step is the scheduled run() of an on_complete, entered while status()
\* is running and no execution is in flight.
DeferredPassWithoutWork ==
  /\ deferred' = deferred - 1
  /\ status = "running"
  /\ tasksBeingRun(tasks) = <<>>
  /\ RunDeferred

\* C40: the tree status does not stay running without work in flight: the
\* scheduled run() that follows an on_complete, entered while status() is
\* running and no execution is in flight, either starts a task, and then
\* emits no tree_status_changed, or sets the status to ok, fail or pending
\* and emits tree_status_changed once with that value.
C40_Step ==
  DeferredPassWithoutWork =>
    \/ /\ pc' = "dispatch"
       /\ runQueue' # <<>>
       /\ status' = "running"
       /\ runStatusEvents(Tree) = <<>>
    \/ /\ pc' = "idle"
       /\ status' \in {"ok", "fail", "pending"}
       /\ runStatusEvents(Tree) = <<status'>>

C40_NoRunningWithoutWork ==
  /\ [][C40_Step]_vars
  /\ [](pc = "idle" /\ status = "running" /\ tasksBeingRun(tasks) = <<>> => deferred > 0)

\* The scheduled run() has set a settled tree to fail: a task has failed,
\* nothing is in flight or runnable and no run() is scheduled.
C40_Witness ==
  /\ pc = "idle"
  /\ deferred = 0
  /\ status = "fail"
  /\ tasksBeingRun(tasks) = <<>>
  /\ runnableTasks(tasks) = <<>>
  /\ \E e \in 1..Len(hist) :
       /\ hist[e].log = StartedFinished
       /\ HasTask(tasks, hist[e].task)
       /\ GetTask(tasks, hist[e].task).execution.id = e
       /\ GetTask(tasks, hist[e].task).execution.success = "false"

====
